---------------------------- MODULE Spec2Model ----------------------------
(***************************************************************************)
(* A model of the curator pipeline's core: the Gemini gateway              *)
(* (src/curator/gemini.py), the cluster id and the Architect stage        *)
(* (src/curator/stages/architect.py).                                      *)
(*                                                                         *)
(* Time is counted in whole seconds of the monotonic clock.  The clock's   *)
(* reference point is undefined, and the model moves it at the start of    *)
(* every generate invocation (see Shift).  Strings that the code inspects  *)
(* character by character are sequences of one-character strings; a        *)
(* response text is a sequence of lines.                                   *)
(***************************************************************************)
EXTENDS Integers, Sequences, FiniteSets, TLC

(***************************************************************************)
(* Bounds of the model.                                                    *)
(***************************************************************************)
MaxCalls == 2        \* generate invocations in one behaviour
MaxIdle == 2         \* seconds between two invocations (CALL_DELAY or more are alike)
MaxLatency == 1      \* seconds one outbound request may take
MaxTextLen == 5      \* lines of a response text given to the parser
MaxUrlLen == 2       \* characters of a url given to compute_cluster_id
MaxUrls == 2         \* urls of a list given to compute_cluster_id
MaxGroups == 2       \* groups in one answer of the grouping oracle
MaxDay == 3          \* dates are the days 0..MaxDay
RetentionDays == 2   \* settings.history_retention_days of the modelled run
DedupWindowDays == 1 \* settings.history_dedup_window_days of the modelled run
MaxBatch == 2        \* entries in one call of add_entries
MaxEntries == 2      \* entries of a history file that is loaded
MaxRuns == 2         \* runs of the pipeline
MaxQueries == 2      \* pairs of an interest and a language the Scout queries
MaxStories == 2      \* stories of a digest, where the run is not modelled
MaxItems == 2        \* items given to a stage that is run by itself

(***************************************************************************)
(* Program constants of gemini.py.                                         *)
(***************************************************************************)
MAX_RETRIES == 5
INITIAL_BACKOFF == 5
CALL_DELAY == 2
RATE_LIMIT_CAP == 15

Clients == {"g1", "g2"}
NoModel == "None"
Shapes == {"object", "array"}

VARIABLES
    \* ---- GeminiClient ----
    now,                  \* time.monotonic()
    call_count,           \* self.call_count, per instance
    last_call_time,       \* self._last_call_time, per instance
    pc,                   \* "idle" | "call": where the running generate stands
    self,                 \* the instance whose generate is running
    response_model,       \* argument of the running generate
    use_search_grounding, \* argument of the running generate
    attempt,              \* loop variable of _call_with_retry
    backoff,              \* local of _call_with_retry
    result,               \* how the last finished generate ended
    \* ---- observations of the gateway (not program state) ----
    invoked,              \* per instance: generate invocations finished
    dispatched,           \* outbound requests of the running/last invocation
    wait,                 \* length of the latest backoff sleep, 0 if none
    slept,                \* backoff sleeps of the running/last invocation
    seen_rate_limit,      \* the latest failure carried a rate-limit signature
    seen_zero_quota,      \* ... and also said "limit: 0"
    response,             \* text of the latest successful request
    last_dispatch,        \* per instance: time of its latest outbound request
    gap,                  \* first request of this invocation minus latest
                          \* request of the previous one (-1: no previous)
    \* ---- _parse_model_from_text ----
    text,                 \* raw response text
    shape,                \* requested output shape
    parsed,               \* result of the parse
    \* ---- compute_cluster_id ----
    urls,                 \* the url list of a first call
    other_urls,           \* the url list of a second call
    canonical,            \* the local `canonical` of the two calls
    cluster_ids,          \* the results of the two calls
    \* ---- Architect.run ----
    candidates,           \* sentinel_output.passed
    history_window,       \* the dedup-window entries
    arch_pc,              \* "start" | "loop" | "returned" | "raised"
    raw_clusters,         \* the fallback groups still to be built
    pending,              \* groups of the answer still to be built
    clusters,             \* local / ArchitectOutput.clusters
    deduped_count,        \* local / ArchitectOutput.deduped_count
    api_calls,            \* local / ArchitectOutput.api_calls
    \* ---- observations of the Architect (not program state) ----
    grouping_failed,      \* the grouping call raised
    formed,               \* every EventCluster built, duplicates included
    groups_seen,          \* groups the loop has gone through
    valid_groups,         \* ... of which those naming a candidate by an index
                          \* from 0 to len(candidates) - 1
    last_rc,              \* the one group of the answer, where the observer
                          \* keeps it (ArchOnlyGroup); NoGroup otherwise
    \* ---- HistoryManager ----
    entries,              \* self._data.entries
    clock,                \* date.today(), as a day number
    hist_pc,              \* "off" | "idle" | "adding": inside add_entries or not
    existing,             \* local of add_entries: cluster id -> position of
                          \* its entry in `entries`, 0 when the id is no key
    hist_pending,         \* entries of the batch still to be added
    \* ---- observations of the HistoryManager (not program state) ----
    hist_op,              \* the latest operation: "none" | "load" |
                          \* "retention" | "window" | "begin" | "add"
    arg_today,            \* the value of `today` it worked with
    arg_entry,            \* the entry the latest iteration of add_entries took
    removed_count,        \* what the latest apply_retention returned
    dedup_window,         \* what the latest get_dedup_window returned
    \* ---- run_pipeline, run after run ----
    history_file,         \* the entries of the history file on disk
    run_pc,               \* "off" | "idle" | "architect" | "adding"
    run_date,             \* today
    new_entries,          \* the entries of add_entries' batch still to be added
    runs,                 \* runs started so far
    \* ---- observations of the pipeline (not program state) ----
    history_before,       \* the store of the run after load and retention
    \* ---- run_pipeline, stage by stage ----
    outputs,              \* the locals that hold the stages' outputs: scout
                          \* (with the locals of PolyglotScout.run while it
                          \* runs), sentinel, analyst, stories, digest
    files,                \* the output directory: file name -> content
    last_updated,         \* HistoryFile.last_updated, in the file and loaded
    \* ---- observations of a run (not program state) ----
    writes,               \* the files the run has written, in order
    raised_in             \* the stages whose generate call has raised, and
                          \* the input or output operations that have failed

gwVars == <<now, call_count, last_call_time, pc, self, response_model,
            use_search_grounding, attempt, backoff, result, invoked,
            dispatched, wait, slept, seen_rate_limit, seen_zero_quota,
            response, last_dispatch, gap>>
\* every part of the gateway's state but the two fields generate sets when
\* it returns
gwRest == <<now, pc, self, response_model, use_search_grounding, attempt,
            backoff, result, invoked, dispatched, wait, slept, seen_rate_limit,
            seen_zero_quota, response, last_dispatch, gap>>
parseVars == <<text, shape, parsed>>
idVars == <<urls, other_urls, canonical, cluster_ids>>
archVars == <<candidates, history_window, arch_pc, raw_clusters, pending,
              clusters, deduped_count, api_calls, grouping_failed, formed,
              groups_seen, valid_groups, last_rc>>
histVars == <<entries, clock, hist_pc, existing, hist_pending, hist_op,
              arg_today, arg_entry, removed_count, dedup_window>>

\* the variables of the components after the Architect
pipeVars == <<history_file, run_pc, run_date, new_entries, runs, history_before>>

\* the variables of a whole run, stage by stage
pubVars == <<outputs, files, last_updated, writes, raised_in>>

laterVars == <<histVars, pipeVars, pubVars>>

vars == <<gwVars, parseVars, idVars, archVars, laterVars>>

\* the variables the gateway leaves alone
otherVars == <<parseVars, idVars, archVars, laterVars>>

Min(a, b) == IF a < b THEN a ELSE b
Max(a, b) == IF a > b THEN a ELSE b

RECURSIVE Pow2(_)
Pow2(n) == IF n = 0 THEN 1 ELSE 2 * Pow2(n - 1)

RECURSIVE SeqsUpTo(_, _)
SeqsUpTo(S, n) ==
    IF n = 0 THEN {<<>>}
    ELSE LET shorter == SeqsUpTo(S, n - 1)
         IN shorter \cup {Append(s, x) : s \in {t \in shorter : Len(t) = n - 1}, x \in S}


(***************************************************************************)
(* Response texts.  A text is a sequence of lines; a line is one of:       *)
(* an opening/closing brace or bracket, a word of prose ("x"), a bare      *)
(* fence of three backticks ("FENCE"), such a fence followed by a language *)
(* tag ("FENCEjson"), or a blank line (" ").  Over these lines a text is   *)
(* valid JSON exactly when, blank lines aside, it is {} or [] wrapped in   *)
(* any number of [ ] pairs.                                                *)
(***************************************************************************)
Lines == {"{", "}", "[", "]", "x", "FENCE", "FENCEjson", " "}
Texts == SeqsUpTo(Lines, MaxTextLen)

IsBlank(line) == line = " "
StartsWithFence(line) == line \in {"FENCE", "FENCEjson"}
IsBareFence(line) == line = "FENCE"

RECURSIVE LStrip(_)
LStrip(t) == IF t # <<>> /\ IsBlank(Head(t)) THEN LStrip(Tail(t)) ELSE t

RECURSIVE RStrip(_)
RStrip(t) ==
    IF t # <<>> /\ IsBlank(t[Len(t)]) THEN RStrip(SubSeq(t, 1, Len(t) - 1)) ELSE t

\* str.strip()
Strip(t) == RStrip(LStrip(t))

\* the characters of a text that are not whitespace
Compact(t) == SelectSeq(t, LAMBDA line : ~IsBlank(line))

\* str.find / str.rfind, 1-based, 0 when absent
Find(t, ch) ==
    IF \E i \in 1..Len(t) : t[i] = ch
    THEN CHOOSE i \in 1..Len(t) : t[i] = ch /\ \A j \in 1..(i - 1) : t[j] # ch
    ELSE 0

RFind(t, ch) ==
    IF \E i \in 1..Len(t) : t[i] = ch
    THEN CHOOSE i \in 1..Len(t) : t[i] = ch /\ \A j \in (i + 1)..Len(t) : t[j] # ch
    ELSE 0

\* json.loads succeeds
RECURSIVE IsJsonValue(_)
IsJsonValue(s) ==
    \/ s = <<"{", "}">>
    \/ s = <<"[", "]">>
    \/ /\ Len(s) >= 3
       /\ s[1] = "["
       /\ s[Len(s)] = "]"
       /\ IsJsonValue(SubSeq(s, 2, Len(s) - 1))

IsJson(t) == IsJsonValue(Compact(t))

\* model.model_validate(value): an object shape takes a JSON object, an array
\* shape (a root model over a list) takes a JSON array
Accepts(model, s) ==
    \/ model = "object" /\ s[1] = "{"
    \/ model = "array" /\ s[1] = "["

\* model.model_validate_json(t) / model.model_validate(json.loads(t)) succeeds
Validates(model, t) == IsJson(t) /\ Accepts(model, Compact(t))

Failure == [ok |-> FALSE, value |-> <<>>]
Value(t) == [ok |-> TRUE, value |-> Compact(t)]
TryValidate(model, t) == IF Validates(model, t) THEN Value(t) ELSE Failure

\* the loop over the lines of a text that starts with a fence
RECURSIVE FenceLoop(_, _, _)
FenceLoop(lines, in_fence, json_lines) ==
    IF lines = <<>> THEN json_lines
    ELSE LET line == Head(lines)
         IN IF StartsWithFence(line) /\ ~in_fence
            THEN FenceLoop(Tail(lines), TRUE, json_lines)
            ELSE IF IsBareFence(line) /\ in_fence
            THEN json_lines
            ELSE IF in_fence
            THEN FenceLoop(Tail(lines), in_fence, Append(json_lines, line))
            ELSE FenceLoop(Tail(lines), in_fence, json_lines)

\* `cleaned` as it stands before the first validation
Cleaned(t) ==
    LET stripped == Strip(t)
    IN IF stripped # <<>> /\ StartsWithFence(stripped[1])
       THEN FenceLoop(stripped, FALSE, <<>>)
       ELSE stripped

\* text[start : end + 1] of the first `open` and the last `close`
Between(t, open, close) == SubSeq(t, Find(t, open), RFind(t, close))
HasBoth(t, open, close) == Find(t, open) # 0 /\ RFind(t, close) # 0

ParseModelFromText(t, model) ==
    LET cleaned == Cleaned(t)
    IN IF Validates(model, cleaned) THEN Value(cleaned)
       ELSE IF HasBoth(cleaned, "{", "}")
       THEN TryValidate(model, Between(cleaned, "{", "}"))
       ELSE IF HasBoth(cleaned, "[", "]")
       THEN TryValidate(model, Between(cleaned, "[", "]"))
       ELSE Failure

\* what generate returns once _call_with_retry has returned response_text
GenerateResult(model, grounding, response_text) ==
    IF model = NoModel THEN [ok |-> TRUE, value |-> response_text]
    ELSE IF ~grounding THEN TryValidate(model, response_text)
    ELSE ParseModelFromText(response_text, model)


(***************************************************************************)
(* GeminiClient.generate and _call_with_retry.                             *)
(*                                                                         *)
(* A failed request is seen by the code only through three tests on the    *)
(* text of the exception: does it contain "429", "RESOURCE_EXHAUSTED",     *)
(* "limit: 0".  A failure is the triple of the answers.                    *)
(***************************************************************************)
Failures == [has429 : BOOLEAN, hasResourceExhausted : BOOLEAN, hasLimit0 : BOOLEAN]

IsRateLimit(exc) == exc.has429 \/ exc.hasResourceExhausted
\* the zero-quota test looking for "429" alone
IsZeroQuotaOn429Only(exc) == exc.has429 /\ exc.hasLimit0

IsZeroQuota(exc) == IsRateLimit(exc) /\ exc.hasLimit0

\* the cap applied to every failure
WaitAlwaysCapped(exc, b) == Min(b, RATE_LIMIT_CAP)

\* the sleep taken before a retry
Wait(exc, b) == IF IsRateLimit(exc) THEN Min(b, RATE_LIMIT_CAP) ELSE b

\* the pacing sleep of generate, entered at time t
PacingSleep(last, t) ==
    IF last > 0 /\ t - last < CALL_DELAY THEN CALL_DELAY - (t - last) ELSE 0

\* Every invocation is entered at clock reading Horizon: the reference point
\* of the clock is moved by d seconds, and so is every stored reading.  A
\* reading of CALL_DELAY seconds ago or more is kept as exactly CALL_DELAY
\* seconds ago (the code only compares ages with CALL_DELAY); the readings 0
\* (no call yet) and -1 (no request yet) are kept.
Horizon == CALL_DELAY + 1
Shift(stamp, d) == IF stamp <= 0 THEN stamp ELSE Max(1, stamp - d)

\* response texts the service returns in the gateway specification
ResponseTexts ==
    { <<"{", "}">>, <<"FENCEjson", "{", "}", "FENCE">> }

Sum(f) == f["g1"] + f["g2"]

NoResult == [kind |-> "none", value |-> <<>>]
Returned(r) == [kind |-> IF r.ok THEN "returned" ELSE "invalid", value |-> r.value]
Raised == [kind |-> "failed", value |-> <<>>]

GatewayInit ==
    /\ now = Horizon
    /\ call_count = [c \in Clients |-> 0]
    /\ last_call_time = [c \in Clients |-> 0]
    /\ pc = "idle"
    /\ self = "g1"
    /\ response_model = NoModel
    /\ use_search_grounding = FALSE
    /\ attempt = 0
    /\ backoff = INITIAL_BACKOFF
    /\ result = NoResult
    /\ invoked = [c \in Clients |-> 0]
    /\ dispatched = 0
    /\ wait = 0
    /\ slept = 0
    /\ seen_rate_limit = FALSE
    /\ seen_zero_quota = FALSE
    /\ response = <<>>
    /\ last_dispatch = [c \in Clients |-> -1]
    /\ gap = -1

\* generate up to the call of _call_with_retry: the caller has let `idle`
\* seconds pass since the previous invocation ended
Generate(c, model, grounding, idle) ==
    LET d == now + idle - Horizon
    IN /\ pc = "idle"
       /\ Sum(invoked) < MaxCalls
       /\ last_call_time' = [k \in Clients |-> Shift(last_call_time[k], d)]
       /\ last_dispatch' = [k \in Clients |-> Shift(last_dispatch[k], d)]
       /\ now' = Horizon + PacingSleep(last_call_time'[c], Horizon)
       /\ pc' = "call"
       /\ self' = c
       /\ response_model' = model
       /\ use_search_grounding' = grounding
       /\ attempt' = 0
       /\ backoff' = INITIAL_BACKOFF
       /\ result' = NoResult
       /\ dispatched' = 0
       /\ wait' = 0
       /\ slept' = 0
       /\ seen_rate_limit' = FALSE
       /\ seen_zero_quota' = FALSE
       /\ response' = <<>>
       /\ gap' = -1
       /\ UNCHANGED <<call_count, invoked>>
       /\ UNCHANGED otherVars

\* one outbound request leaves at time `now`
Dispatch ==
    /\ dispatched' = dispatched + 1
    /\ last_dispatch' = [last_dispatch EXCEPT ![self] = now]
    /\ gap' = IF dispatched = 0 /\ last_dispatch[self] # -1
              THEN now - last_dispatch[self]
              ELSE gap

\* the bookkeeping of generate after _call_with_retry has returned
RecordCall(t) ==
    /\ last_call_time' = [last_call_time EXCEPT ![self] = t]
    /\ call_count' = [call_count EXCEPT ![self] = @ + 1]

\* what the observer notes of a failure, read off its text
Observe(exc) ==
    /\ seen_rate_limit' = (exc.has429 \/ exc.hasResourceExhausted)
    /\ seen_zero_quota' = ((exc.has429 \/ exc.hasResourceExhausted) /\ exc.hasLimit0)

\* `if attempt < _MAX_RETRIES - 1`: sleep and double the backoff
ShouldSleep(a) == a < MAX_RETRIES - 1

\* a loop of one iteration too many
InRangeOffByOne(a) == a < MAX_RETRIES + 1

\* `for attempt in range(_MAX_RETRIES)`: is there an iteration for a
InRange(a) == a < MAX_RETRIES

\* the except branch past the zero-quota test
HandleFailure(latency, exc) ==
    /\ wait' = IF ShouldSleep(attempt) THEN Wait(exc, backoff) ELSE wait
    /\ slept' = IF ShouldSleep(attempt) THEN slept + 1 ELSE slept
    /\ backoff' = IF ShouldSleep(attempt) THEN backoff * 2 ELSE backoff
    /\ now' = now + latency + (IF ShouldSleep(attempt) THEN Wait(exc, backoff) ELSE 0)

\* the request succeeds: _call_with_retry returns, generate records the call
\* and builds its result
AttemptOk(latency, response_text) ==
    /\ pc = "call"
    /\ Dispatch
    /\ now' = now + latency
    /\ RecordCall(now + latency)
    /\ response' = response_text
    /\ result' = Returned(GenerateResult(response_model, use_search_grounding,
                                         response_text))
    /\ pc' = "idle"
    /\ invoked' = [invoked EXCEPT ![self] = @ + 1]
    /\ UNCHANGED <<self, response_model, use_search_grounding, attempt, backoff,
                   wait, slept, seen_rate_limit, seen_zero_quota>>
    /\ UNCHANGED otherVars

\* the request fails with zero quota: break, then raise out of generate
AttemptZeroQuota(latency, exc) ==
    /\ pc = "call"
    /\ IsZeroQuota(exc)
    /\ Dispatch
    /\ Observe(exc)
    /\ now' = now + latency
    /\ result' = Raised
    /\ pc' = "idle"
    /\ invoked' = [invoked EXCEPT ![self] = @ + 1]
    /\ UNCHANGED <<call_count, last_call_time, self, response_model,
                   use_search_grounding, attempt, backoff, wait, slept, response>>
    /\ UNCHANGED otherVars

\* the request fails and the loop has another iteration
AttemptRetry(latency, exc) ==
    /\ pc = "call"
    /\ ~IsZeroQuota(exc)
    /\ InRange(attempt + 1)
    /\ Dispatch
    /\ Observe(exc)
    /\ HandleFailure(latency, exc)
    /\ attempt' = attempt + 1
    /\ UNCHANGED <<call_count, last_call_time, pc, self, response_model,
                   use_search_grounding, result, invoked, response>>
    /\ UNCHANGED otherVars

\* the request fails in the last iteration: the loop ends and generate raises
AttemptExhausted(latency, exc) ==
    /\ pc = "call"
    /\ ~IsZeroQuota(exc)
    /\ ~InRange(attempt + 1)
    /\ Dispatch
    /\ Observe(exc)
    /\ HandleFailure(latency, exc)
    /\ result' = Raised
    /\ pc' = "idle"
    /\ invoked' = [invoked EXCEPT ![self] = @ + 1]
    /\ UNCHANGED <<call_count, last_call_time, self, response_model,
                   use_search_grounding, attempt, response>>
    /\ UNCHANGED otherVars

GatewayNext ==
    \/ \E c \in Clients, model \in {NoModel} \cup Shapes, grounding \in BOOLEAN,
          idle \in 0..MaxIdle : Generate(c, model, grounding, idle)
    \/ \E latency \in 0..MaxLatency, t \in ResponseTexts : AttemptOk(latency, t)
    \/ \E latency \in 0..MaxLatency, exc \in Failures : AttemptZeroQuota(latency, exc)
    \/ \E latency \in 0..MaxLatency, exc \in Failures : AttemptRetry(latency, exc)
    \/ \E latency \in 0..MaxLatency, exc \in Failures : AttemptExhausted(latency, exc)

(***************************************************************************)
(* The parser on its own: generate's last lines applied to any text.       *)
(***************************************************************************)
ParseIdle ==
    /\ text = <<>>
    /\ shape = NoModel
    /\ parsed = NoResult

ParseInit ==
    /\ text \in Texts
    /\ shape \in Shapes
    /\ parsed = NoResult

ParseText ==
    /\ parsed = NoResult
    /\ parsed' = Returned(GenerateResult(shape, TRUE, text))
    /\ UNCHANGED <<text, shape>>
    /\ UNCHANGED <<gwVars, idVars, archVars, laterVars>>

ParseNext == ParseText

(***************************************************************************)
(* compute_cluster_id.  A url is a sequence of characters; Python orders   *)
(* strings by code point, and a newline comes before every letter.         *)
(***************************************************************************)
Chars == {"\n", "a"}
CodePoint(ch) == IF ch = "\n" THEN 10 ELSE 97

UrlStrings == SeqsUpTo(Chars, MaxUrlLen)
UrlLists == SeqsUpTo(UrlStrings, MaxUrls)
UrlSets == {S \in SUBSET UrlStrings : Cardinality(S) <= MaxUrls}

\* s < t on Python strings
RECURSIVE StrLess(_, _)
StrLess(s, t) ==
    IF t = <<>> THEN FALSE
    ELSE IF s = <<>> THEN TRUE
    ELSE IF Head(s) # Head(t) THEN CodePoint(Head(s)) < CodePoint(Head(t))
    ELSE StrLess(Tail(s), Tail(t))

\* set(urls)
ToSet(list) == {list[i] : i \in 1..Len(list)}

\* sorted(S)
RECURSIVE Sorted(_)
Sorted(S) ==
    IF S = {} THEN <<>>
    ELSE LET least == CHOOSE x \in S : \A y \in S : x = y \/ StrLess(x, y)
         IN <<least>> \o Sorted(S \ {least})

\* sep.join(list)
RECURSIVE Join(_, _)
Join(sep, list) ==
    IF list = <<>> THEN <<>>
    ELSE IF Len(list) = 1 THEN list[1]
    ELSE list[1] \o sep \o Join(sep, Tail(list))

\* the separator joining nothing
SeparatorEmpty == <<>>

Separator == <<"\n">>

\* the join of the urls as given
CanonicalUnsorted(list) == Join(Separator, list)

\* "\n".join(sorted(set(urls)))
Canonical(list) == Join(Separator, Sorted(ToSet(list)))

\* hashlib.sha256(bytes).hexdigest(): the library's digest is stood in for
\* by a mixing of the bytes into 64 hexadecimal digits
HexDigits == <<"0", "1", "2", "3", "4", "5", "6", "7",
               "8", "9", "a", "b", "c", "d", "e", "f">>

RECURSIVE Mix(_, _)
Mix(h, bytes) ==
    IF bytes = <<>> THEN h
    ELSE Mix((h * 31 + CodePoint(Head(bytes)) + 7) % 65521, Tail(bytes))

Spread(h) ==
    [i \in 1..64 |-> HexDigits[((((h \div 16) * i) + h + i) % 16) + 1]]

Sha256Hex(bytes) == Spread(Mix(17, bytes))

ComputeClusterId(list) == SubSeq(Sha256Hex(Canonical(list)), 1, 16)

\* a list holding the members of S once each
RECURSIVE Enumerate(_)
Enumerate(S) ==
    IF S = {} THEN <<>>
    ELSE LET x == CHOOSE y \in S : TRUE IN <<x>> \o Enumerate(S \ {x})

PermutationsOf(list) ==
    {[i \in 1..Len(list) |-> list[p[i]]] :
        p \in {q \in [1..Len(list) -> 1..Len(list)] :
                  \A i, j \in 1..Len(list) : q[i] = q[j] => i = j}}

NotComputed == <<>>

IdIdle ==
    /\ urls = <<>>
    /\ other_urls = <<>>
    /\ canonical = NotComputed
    /\ cluster_ids = NotComputed

\* two calls of compute_cluster_id
ComputeBoth(a, b) ==
    /\ canonical' = <<Canonical(a), Canonical(b)>>
    /\ cluster_ids' = <<ComputeClusterId(a), ComputeClusterId(b)>>

IdInit ==
    /\ urls \in UrlLists
    /\ other_urls = <<>>
    /\ canonical = NotComputed
    /\ cluster_ids = NotComputed

\* the id of a list and of a permutation of it
IdOfPermuted(permuted) ==
    /\ cluster_ids = NotComputed
    /\ permuted \in PermutationsOf(urls)
    /\ other_urls' = permuted
    /\ ComputeBoth(urls, permuted)
    /\ UNCHANGED urls
    /\ UNCHANGED <<gwVars, parseVars, archVars, laterVars>>

\* the id of a list and of the list with one of its urls appended
IdOfRepeated(url) ==
    /\ cluster_ids = NotComputed
    /\ url \in ToSet(urls)
    /\ other_urls' = Append(urls, url)
    /\ ComputeBoth(urls, other_urls')
    /\ UNCHANGED urls
    /\ UNCHANGED <<gwVars, parseVars, archVars, laterVars>>

IdNext ==
    \/ \E permuted \in PermutationsOf(urls) : IdOfPermuted(permuted)
    \/ \E url \in ToSet(urls) : IdOfRepeated(url)

\* the ids of two url sets, each given as a list in some order
KeyInit ==
    /\ \E A \in UrlSets, B \in UrlSets :
           /\ urls = Enumerate(A)
           /\ other_urls = Enumerate(B)
    /\ canonical = NotComputed
    /\ cluster_ids = NotComputed

IdOfBoth ==
    /\ cluster_ids = NotComputed
    /\ ComputeBoth(urls, other_urls)
    /\ UNCHANGED <<urls, other_urls>>
    /\ UNCHANGED <<gwVars, parseVars, archVars, laterVars>>

KeyNext == IdOfBoth

(***************************************************************************)
(* Architect.run.  The answer of the grouping oracle is drawn group by     *)
(* group as the loop over raw_clusters reaches it.                         *)
(***************************************************************************)
CandidatePool ==
    { [title |-> "A", url |-> <<"a">>],
      [title |-> "B", url |-> <<"a", "a">>],
      [title |-> "C", url |-> <<"a">>] }

HistoryPool ==
    { <<>>,
      << [label |-> "old a", urls |-> << <<"a">> >>] >>,
      << [label |-> "old aa", urls |-> << <<"a", "a">>, <<"a", "\n">> >>] >>,
      << [label |-> "old a", urls |-> << <<"a">> >>],
         [label |-> "old aa", urls |-> << <<"a", "a">> >>] >> }

\* the inputs of Architect.run: up to two candidates of the pool
CandidateLists == SeqsUpTo(CandidatePool, 2)

\* the integers the oracle may give as an index of up to two candidates:
\* from one below the lowest index Python accepts to one above the highest
Indices == (0 - 3)..2

\* the groups the oracle may give: up to two member indices
Groups ==
    [label : {"L"},
     candidate_indices : SeqsUpTo(Indices, 2),
     best_index : Indices]

NoGroup == [label |-> "", candidate_indices |-> <<>>, best_index |-> 0]

\* list[idx] of Python: is it an IndexError, and if not, which element
PyIndexError(list, idx) == idx >= Len(list) \/ idx < 0 - Len(list)
PyIndex(list, idx) == IF idx >= 0 THEN list[idx + 1] ELSE list[Len(list) + idx + 1]

\* `if idx < len(candidates)` of the comprehension
KeepsIndex(cands, idx) == idx < Len(cands)

\* the indices the comprehension reads candidates[idx] for
KeptIndices(cands, rc) ==
    SelectSeq(rc.candidate_indices, LAMBDA idx : KeepsIndex(cands, idx))

\* best_idx
BestIdx(cands, rc) ==
    IF rc.best_index < Len(cands) THEN rc.best_index ELSE rc.candidate_indices[1]

\* the union of the urls of the window's entries
HistoryUrls(window) ==
    UNION {ToSet(window[i].urls) : i \in 1..Len(window)}

\* overlap
Overlap(url_list, history_urls) ==
    Cardinality({i \in 1..Len(url_list) : url_list[i] \in history_urls})

\* the test flagging a cluster of which half the urls are known
IsDupAtHalf(url_list, history_urls) ==
    2 * Overlap(url_list, history_urls) >= Len(url_list)

\* is_dup: overlap > len(urls) * 0.5
IsDup(url_list, history_urls) ==
    2 * Overlap(url_list, history_urls) > Len(url_list)

\* does building the cluster of rc raise IndexError
BuildRaises(cands, rc) ==
    LET kept == KeptIndices(cands, rc)
    IN \/ \E i \in 1..Len(kept) : PyIndexError(cands, kept[i])
       \/ /\ kept # <<>>
          /\ BestIdx(cands, rc) < Len(cands)
          /\ PyIndexError(cands, BestIdx(cands, rc))

\* the EventCluster of rc (when its members are not empty and nothing raises)
BuildCluster(cands, window, rc) ==
    LET kept == KeptIndices(cands, rc)
        cluster_candidates == [i \in 1..Len(kept) |-> PyIndex(cands, kept[i])]
        url_list == [i \in 1..Len(kept) |-> cluster_candidates[i].url]
        best_idx == BestIdx(cands, rc)
    IN [cluster_id |-> ComputeClusterId(url_list),
        label |-> rc.label,
        candidates |-> cluster_candidates,
        best_url |-> IF best_idx < Len(cands)
                     THEN PyIndex(cands, best_idx).url
                     ELSE url_list[1],
        is_duplicate_of_history |-> IsDup(url_list, HistoryUrls(window))]

\* fallback groups that all name candidate 0 as the best
FallbackGroupsBestZero(cands) ==
    [i \in 1..Len(cands) |->
        [label |-> cands[i].title, candidate_indices |-> <<i - 1>>, best_index |-> 0]]

\* the groups of the except branch: one per candidate
FallbackGroups(cands) ==
    [i \in 1..Len(cands) |->
        [label |-> cands[i].title, candidate_indices |-> <<i - 1>>, best_index |-> i - 1]]

ArchIdle ==
    /\ candidates = <<>>
    /\ history_window = <<>>
    /\ arch_pc = "off"
    /\ raw_clusters = <<>>
    /\ pending = 0
    /\ clusters = <<>>
    /\ deduped_count = 0
    /\ api_calls = 0
    /\ grouping_failed = FALSE
    /\ formed = <<>>
    /\ groups_seen = 0
    /\ valid_groups = 0
    /\ last_rc = NoGroup

ArchInit ==
    /\ candidates \in CandidateLists
    /\ history_window \in HistoryPool
    /\ arch_pc = "start"
    /\ raw_clusters = <<>>
    /\ pending = 0
    /\ clusters = <<>>
    /\ deduped_count = 0
    /\ api_calls = 0
    /\ grouping_failed = FALSE
    /\ formed = <<>>
    /\ groups_seen = 0
    /\ valid_groups = 0
    /\ last_rc = NoGroup

\* no candidates: return at once
ArchShortCircuit ==
    /\ arch_pc = "start"
    /\ candidates = <<>>
    /\ arch_pc' = "returned"
    /\ UNCHANGED <<candidates, history_window, raw_clusters, pending, clusters,
                   deduped_count, api_calls, grouping_failed, formed,
                   groups_seen, valid_groups, last_rc>>
    /\ UNCHANGED <<gwVars, parseVars, idVars, laterVars>>

\* the grouping call returns an answer of n groups
ArchGrouped(n) ==
    /\ arch_pc = "start"
    /\ candidates # <<>>
    /\ RecordCall(now)
    /\ api_calls' = api_calls + 1
    /\ pending' = n
    /\ arch_pc' = "loop"
    /\ UNCHANGED <<candidates, history_window, raw_clusters, clusters,
                   deduped_count, grouping_failed, formed, groups_seen,
                   valid_groups, last_rc>>
    /\ UNCHANGED <<gwRest, parseVars, idVars, laterVars>>

\* the grouping call raises: one group per candidate
ArchGroupingFailed ==
    /\ arch_pc = "start"
    /\ candidates # <<>>
    /\ api_calls' = api_calls + 1
    /\ raw_clusters' = FallbackGroups(candidates)
    /\ pending' = Len(candidates)
    /\ grouping_failed' = TRUE
    /\ arch_pc' = "loop"
    /\ UNCHANGED <<candidates, history_window, clusters, deduped_count, formed,
                   groups_seen, valid_groups, last_rc>>
    /\ UNCHANGED <<gwVars, parseVars, idVars, laterVars>>

\* what the observer notes of a group: does it name a candidate
HasValidIndex(cands, rc) ==
    \E i \in 1..Len(rc.candidate_indices) :
        rc.candidate_indices[i] >= 0 /\ rc.candidate_indices[i] < Len(cands)

\* one iteration of `for rc in raw_clusters`
LoopBody(rc) ==
    /\ groups_seen' = groups_seen + 1
    /\ valid_groups' = IF HasValidIndex(candidates, rc)
                       THEN valid_groups + 1
                       ELSE valid_groups
    /\ pending' = pending - 1
    /\ IF BuildRaises(candidates, rc)
       THEN /\ arch_pc' = "raised"
            /\ UNCHANGED <<clusters, deduped_count, formed>>
       ELSE IF KeptIndices(candidates, rc) = <<>>
       THEN UNCHANGED <<arch_pc, clusters, deduped_count, formed>>
       ELSE LET cluster == BuildCluster(candidates, history_window, rc)
            IN /\ formed' = Append(formed, cluster)
               /\ IF cluster.is_duplicate_of_history
                  THEN /\ deduped_count' = deduped_count + 1
                       /\ UNCHANGED clusters
                  ELSE /\ clusters' = Append(clusters, cluster)
                       /\ UNCHANGED deduped_count
               /\ UNCHANGED arch_pc
    /\ UNCHANGED <<candidates, history_window, api_calls, grouping_failed>>
    /\ UNCHANGED <<gwVars, parseVars, idVars, laterVars>>

ArchOracleGroup(rc) ==
    /\ arch_pc = "loop"
    /\ pending > 0
    /\ ~grouping_failed
    /\ LoopBody(rc)
    /\ UNCHANGED <<raw_clusters, last_rc>>

\* the iteration for an answer of one group, the group kept for the observer
ArchOnlyGroup(rc) ==
    /\ arch_pc = "loop"
    /\ pending = 1
    /\ groups_seen = 0
    /\ ~grouping_failed
    /\ LoopBody(rc)
    /\ last_rc' = rc
    /\ UNCHANGED raw_clusters

ArchFallbackGroup ==
    /\ arch_pc = "loop"
    /\ pending > 0
    /\ grouping_failed
    /\ LoopBody(Head(raw_clusters))
    /\ raw_clusters' = Tail(raw_clusters)
    /\ UNCHANGED last_rc

\* the loop is over: return the ArchitectOutput
ArchReturn ==
    /\ arch_pc = "loop"
    /\ pending = 0
    /\ arch_pc' = "returned"
    /\ UNCHANGED <<candidates, history_window, raw_clusters, pending, clusters,
                   deduped_count, api_calls, grouping_failed, formed,
                   groups_seen, valid_groups, last_rc>>
    /\ UNCHANGED <<gwVars, parseVars, idVars, laterVars>>

ArchNext ==
    \/ ArchShortCircuit
    \/ \E n \in 0..MaxGroups : ArchGrouped(n)
    \/ ArchGroupingFailed
    \/ \E rc \in Groups : ArchOracleGroup(rc)
    \/ ArchFallbackGroup
    \/ ArchReturn

\* Architect.run on answers of at most one group
GroupNext ==
    \/ ArchShortCircuit
    \/ \E n \in 0..1 : ArchGrouped(n)
    \/ \E rc \in Groups : ArchOnlyGroup(rc)
    \/ ArchReturn

(***************************************************************************)
(* HistoryManager.  A date is a day number; a date string is an ISO date   *)
(* (which date.fromisoformat parses), the empty string, or a string that   *)
(* is no ISO date.                                                         *)
(***************************************************************************)
Days == 0..MaxDay
NoDate == 0 - 1          \* today = None

Blank == [kind |-> "blank", day |-> 0]
Junk == [kind |-> "junk", day |-> 0]
\* date.isoformat()
IsoFormat(d) == [kind |-> "iso", day |-> d]
DateStrings == {Blank, Junk} \cup {IsoFormat(d) : d \in Days}

\* _parse_date falling back to day 0
ParseDateEpoch(date_str, fallback) ==
    IF date_str.kind = "iso" THEN date_str.day ELSE 0

\* _parse_date
ParseDate(date_str, fallback) ==
    IF date_str.kind = "iso" THEN date_str.day ELSE fallback

\* `today or date.today()`
Today(today) == IF today = NoDate THEN clock ELSE today

\* a retention test that also drops the entry seen exactly at the cutoff
RetentionKeepsAfterCutoff(e, today) ==
    ParseDate(e.last_seen, today) > today - RetentionDays

\* the filter of apply_retention
RetentionKeeps(e, today) ==
    ParseDate(e.last_seen, today) >= today - RetentionDays

\* a window test that leaves out the entry seen exactly at the cutoff
InWindowAfterCutoff(e, today) ==
    ParseDate(e.last_seen, today) > today - DedupWindowDays

\* the filter of get_dedup_window
InWindow(e, today) ==
    ParseDate(e.last_seen, today) >= today - DedupWindowDays

\* `date_str or date.today().isoformat()`
OrToday(date_str) == IF date_str = Blank THEN IsoFormat(clock) ELSE date_str

\* the entries given to add_entries
EntryPool ==
    [cluster_id : {"c1"}, label : {"L"},
     urls : { << <<"a">> >>, << <<"a", "a">> >> },
     first_seen : {Blank, IsoFormat(0)}, last_seen : DateStrings]
    \cup
    [cluster_id : {"c2"}, label : {"M"},
     urls : { << <<"a">> >> },
     first_seen : {Blank, IsoFormat(0)}, last_seen : DateStrings]

NoEntry == [cluster_id |-> "", label |-> "", urls |-> <<>>,
            first_seen |-> Blank, last_seen |-> Blank]

\* {e.cluster_id: e for e in self._data.entries}: the position of the last
\* entry of each id
ExistingOf(list) ==
    [id \in {list[i].cluster_id : i \in 1..Len(list)} |->
        CHOOSE i \in 1..Len(list) :
            /\ list[i].cluster_id = id
            /\ \A j \in (i + 1)..Len(list) : list[j].cluster_id # id]

\* a dict that does not take the new key
Forget(dict, id, position) == dict

\* existing[entry.cluster_id] = entry
Remember(dict, id, position) ==
    [k \in DOMAIN dict \cup {id} |-> IF k = id THEN position ELSE dict[k]]

\* the urls of the new entry alone
ReplaceUrls(old, new) == ToSet(new)

\* set(ex.urls) | set(entry.urls)
MergeUrls(old, new) == ToSet(old) \cup ToSet(new)

\* list(S): the members of S in any order
Orderings(S) == PermutationsOf(Enumerate(S))

HistIdle ==
    /\ entries = <<>>
    /\ clock = 0
    /\ hist_pc = "off"
    /\ existing = <<>>
    /\ hist_pending = 0
    /\ hist_op = "none"
    /\ arg_today = 0
    /\ arg_entry = NoEntry
    /\ removed_count = 0
    /\ dedup_window = <<>>

\* HistoryManager.__init__ on some day
HistInit ==
    /\ entries = <<>>
    /\ clock \in Days
    /\ hist_pc = "idle"
    /\ existing = <<>>
    /\ hist_pending = 0
    /\ hist_op = "none"
    /\ arg_today = 0
    /\ arg_entry = NoEntry
    /\ removed_count = 0
    /\ dedup_window = <<>>

\* the entries of a history file: any ids, any date strings
FileEntries ==
    [cluster_id : {"c1", "c2"}, label : {"L"}, urls : { << <<"a">> >> },
     first_seen : {IsoFormat(0)}, last_seen : DateStrings]

\* load() of an existing file, first thing after construction
Load(file_entries) ==
    /\ hist_pc = "idle"
    /\ hist_op = "none"
    /\ entries' = file_entries
    /\ hist_op' = "load"
    /\ UNCHANGED <<clock, hist_pc, existing, hist_pending, arg_today, arg_entry,
                   removed_count, dedup_window>>
    /\ UNCHANGED <<gwVars, parseVars, idVars, archVars, pipeVars, pubVars>>

ApplyRetention(today) ==
    /\ hist_pc = "idle"
    /\ entries' = SelectSeq(entries, LAMBDA e : RetentionKeeps(e, Today(today)))
    /\ removed_count' = Len(entries) - Len(entries')
    /\ hist_op' = "retention"
    /\ arg_today' = Today(today)
    /\ arg_entry' = NoEntry
    /\ dedup_window' = <<>>
    /\ UNCHANGED <<clock, hist_pc, existing, hist_pending>>
    /\ UNCHANGED <<gwVars, parseVars, idVars, archVars, pipeVars, pubVars>>

GetDedupWindow(today) ==
    /\ hist_pc = "idle"
    /\ dedup_window' = SelectSeq(entries, LAMBDA e : InWindow(e, Today(today)))
    /\ hist_op' = "window"
    /\ arg_today' = Today(today)
    /\ arg_entry' = NoEntry
    /\ removed_count' = 0
    /\ UNCHANGED <<entries, clock, hist_pc, existing, hist_pending>>
    /\ UNCHANGED <<gwVars, parseVars, idVars, archVars, pipeVars, pubVars>>

\* add_entries is called with a batch of n entries
AddBegin(n) ==
    /\ hist_pc = "idle"
    /\ hist_pc' = "adding"
    /\ existing' = ExistingOf(entries)
    /\ hist_pending' = n
    /\ hist_op' = "begin"
    /\ arg_today' = clock
    /\ arg_entry' = NoEntry
    /\ removed_count' = 0
    /\ dedup_window' = <<>>
    /\ UNCHANGED <<entries, clock>>
    /\ UNCHANGED <<gwVars, parseVars, idVars, archVars, pipeVars, pubVars>>

\* the body of `for entry in entries`; url_list is the order list() gives
\* the merged urls
AddOne(entry, url_list) ==
    IF entry.cluster_id \in DOMAIN existing
    THEN LET ex == existing[entry.cluster_id]
         IN /\ url_list \in Orderings(MergeUrls(entries[ex].urls, entry.urls))
            /\ entries' = [entries EXCEPT
                              ![ex].last_seen = OrToday(entry.last_seen),
                              ![ex].urls = url_list]
            /\ UNCHANGED existing
    ELSE /\ url_list = entry.urls
         /\ entries' = Append(entries,
                           [entry EXCEPT !.first_seen = OrToday(entry.first_seen),
                                         !.last_seen = OrToday(entry.last_seen)])
         /\ existing' = Remember(existing, entry.cluster_id, Len(entries) + 1)

\* one iteration of add_entries called on its own
AddEntry(entry, url_list) ==
    /\ hist_pc = "adding"
    /\ hist_pending > 0
    /\ AddOne(entry, url_list)
    /\ hist_pending' = hist_pending - 1
    /\ hist_pc' = IF hist_pending = 1 THEN "idle" ELSE "adding"
    /\ hist_op' = "add"
    /\ arg_today' = clock
    /\ arg_entry' = entry
    /\ UNCHANGED <<clock, removed_count, dedup_window>>
    /\ UNCHANGED <<gwVars, parseVars, idVars, archVars, pipeVars, pubVars>>

\* the url lists the entry's iteration can leave in the store: any order of
\* the merged set, or the entry's own list when it is appended
AddOrders(entry) ==
    IF entry.cluster_id \in DOMAIN existing
    THEN Orderings(MergeUrls(entries[existing[entry.cluster_id]].urls, entry.urls))
    ELSE {entry.urls}

HistNext ==
    \/ \E today \in Days \cup {NoDate} : ApplyRetention(today)
    \/ \E today \in Days \cup {NoDate} : GetDedupWindow(today)
    \/ \E n \in 1..MaxBatch : AddBegin(n)
    \/ hist_pc = "adding"
       /\ \E entry \in EntryPool :
              \E url_list \in AddOrders(entry) : AddEntry(entry, url_list)

\* a loaded history file under retention and dedup-window queries
RetentionNext ==
    \/ hist_op = "none"
       /\ \E file_entries \in SeqsUpTo(FileEntries, MaxEntries) : Load(file_entries)
    \/ \E today \in Days \cup {NoDate} : ApplyRetention(today)
    \/ \E today \in Days \cup {NoDate} : GetDedupWindow(today)

(***************************************************************************)
(* run_pipeline, run after run on one history file.  The stages before the *)
(* Architect give it any candidates; of the stages after it nothing is     *)
(* kept but that the run goes on to update the history.                    *)
(***************************************************************************)
PipeIdle ==
    /\ history_file = <<>>
    /\ run_pc = "off"
    /\ run_date = 0
    /\ new_entries = <<>>
    /\ runs = 0
    /\ history_before = <<>>

\* no run yet, no history file yet
PipeInit ==
    /\ history_file = <<>>
    /\ run_pc = "idle"
    /\ run_date = 0
    /\ new_entries = <<>>
    /\ runs = 0
    /\ history_before = <<>>

\* HistoryEntry(...) for cluster in architect_output.clusters
\* an entry that leaves first-seen unstamped
EntryOfClusterUnstamped(cluster, today) ==
    [cluster_id |-> cluster.cluster_id,
     label |-> cluster.label,
     urls |-> [i \in 1..Len(cluster.candidates) |-> cluster.candidates[i].url],
     first_seen |-> Blank,
     last_seen |-> IsoFormat(today)]

EntryOfCluster(cluster, today) ==
    [cluster_id |-> cluster.cluster_id,
     label |-> cluster.label,
     urls |-> [i \in 1..Len(cluster.candidates) |-> cluster.candidates[i].url],
     first_seen |-> IsoFormat(today),
     last_seen |-> IsoFormat(today)]

\* a run starts `days` days after the previous one: load, apply_retention,
\* the stages up to the Sentinel, get_dedup_window
RunStart(days, cands) ==
    /\ run_pc = "idle"
    /\ runs < MaxRuns
    /\ clock + days <= MaxDay
    /\ clock' = clock + days
    /\ run_date' = clock'
    /\ runs' = runs + 1
    /\ entries' = SelectSeq(history_file, LAMBDA e : RetentionKeeps(e, clock'))
    /\ removed_count' = Len(history_file) - Len(entries')
    /\ history_before' = entries'
    /\ dedup_window' = SelectSeq(entries', LAMBDA e : InWindow(e, clock'))
    /\ hist_op' = "window"
    /\ arg_today' = clock'
    /\ run_pc' = "architect"
    /\ candidates' = cands
    /\ history_window' = dedup_window'
    /\ arch_pc' = "start"
    /\ raw_clusters' = <<>>
    /\ pending' = 0
    /\ clusters' = <<>>
    /\ deduped_count' = 0
    /\ api_calls' = 0
    /\ grouping_failed' = FALSE
    /\ formed' = <<>>
    /\ groups_seen' = 0
    /\ valid_groups' = 0
    /\ UNCHANGED <<last_rc, hist_pc, existing, hist_pending, arg_entry,
                   history_file, new_entries>>
    /\ UNCHANGED <<gwVars, parseVars, idVars, pubVars>>

\* Architect.run has returned: the new entries are built and add_entries is
\* entered
RunUpdate ==
    /\ run_pc = "architect"
    /\ arch_pc = "returned"
    /\ new_entries' = [k \in 1..Len(clusters) |-> EntryOfCluster(clusters[k], run_date)]
    /\ existing' = ExistingOf(entries)
    /\ hist_op' = "begin"
    /\ run_pc' = "adding"
    /\ UNCHANGED <<entries, clock, hist_pc, hist_pending, arg_today, arg_entry,
                   removed_count, dedup_window, history_file, run_date, runs,
                   history_before>>
    /\ UNCHANGED <<gwVars, parseVars, idVars, archVars, pubVars>>

\* one iteration of add_entries on the new entries
RunAddEntry(url_list) ==
    /\ run_pc = "adding"
    /\ new_entries # <<>>
    /\ AddOne(Head(new_entries), url_list)
    /\ new_entries' = Tail(new_entries)
    /\ hist_op' = "add"
    /\ arg_entry' = Head(new_entries)
    /\ UNCHANGED <<clock, hist_pc, hist_pending, arg_today, removed_count,
                   dedup_window, history_file, run_pc, run_date, runs,
                   history_before>>
    /\ UNCHANGED <<gwVars, parseVars, idVars, archVars, pubVars>>

\* add_entries is over: save
RunSave ==
    /\ run_pc = "adding"
    /\ new_entries = <<>>
    /\ history_file' = entries
    /\ run_pc' = "idle"
    /\ UNCHANGED <<histVars, run_date, new_entries, runs, history_before>>
    /\ UNCHANGED <<gwVars, parseVars, idVars, archVars, pubVars>>

\* Architect.run has raised: the run ends without add_entries and save
RunAborted ==
    /\ run_pc = "architect"
    /\ arch_pc = "raised"
    /\ run_pc' = "idle"
    /\ arch_pc' = "off"
    /\ UNCHANGED <<candidates, history_window, raw_clusters, pending, clusters,
                   deduped_count, api_calls, grouping_failed, formed,
                   groups_seen, valid_groups, last_rc>>
    /\ UNCHANGED <<histVars, history_file, run_date, new_entries, runs,
                   history_before>>
    /\ UNCHANGED <<gwVars, parseVars, idVars, pubVars>>

\* the url lists the candidates' urls can merge to
ClusterUrlOrders ==
    UNION {Orderings(S) : S \in SUBSET {c.url : c \in CandidatePool}}

PipeNext ==
    \/ \E days \in 0..MaxDay, cands \in CandidateLists : RunStart(days, cands)
    \/ ArchShortCircuit
    \/ \E n \in 0..1 : ArchGrouped(n)
    \/ ArchGroupingFailed
    \/ \E rc \in Groups : ArchOracleGroup(rc)
    \/ ArchFallbackGroup
    \/ ArchReturn
    \/ RunUpdate
    \/ \E url_list \in ClusterUrlOrders : RunAddEntry(url_list)
    \/ RunSave
    \/ RunAborted

(***************************************************************************)
(* run_pipeline, stage by stage.  A generate call of a stage is one step:  *)
(* it returns (and the gateway counts it) or it raises (and the gateway    *)
(* does not count it); its pacing and retries are those of the gateway     *)
(* specification.  The date can change while a run is under way.  Scores   *)
(* are counted in tenths.  Of a candidate, an analysis and a story the     *)
(* fields are kept that some stage's control flow or the digest's counts   *)
(* read.                                                                   *)
(***************************************************************************)
sentinel_relevance_threshold == 6
editor_snr_threshold == 5
editor_breaking_threshold == 8
editor_importance_threshold == 8

\* settings.output_path, f"{today}.json", "archive.json", settings.history_path
FileLatest == [name |-> "latest", day |-> 0]
FileDated(d) == [name |-> "dated", day |-> d]
FileArchive == [name |-> "archive", day |-> 0]
FileHistory == [name |-> "history", day |-> 0]
FileNames == {FileLatest, FileArchive} \cup {FileDated(d) : d \in Days}

NoFile == [kind |-> "absent"]

\* ScoutOutput, and while PolyglotScout.run is under way its locals
\* use_grounding and the (interest, language) pairs still to be queried
NoScout == [candidates |-> <<>>, api_calls |-> 0, use_grounding |-> TRUE,
            queries |-> 0]
NoSentinel == [passed |-> <<>>, filtered_count |-> 0, api_calls |-> 0]
NoAnalyst == [analyses |-> <<>>, api_calls |-> 0]
NoOutputs == [scout |-> NoScout, sentinel |-> NoSentinel, analyst |-> NoAnalyst,
              stories |-> <<>>, digest |-> NoFile]

\* what a source of the Scout can give: two candidates of the pool and one
\* without a url
ScoutPool ==
    { [title |-> "A", url |-> <<"a">>],
      [title |-> "B", url |-> <<"a", "a">>],
      [title |-> "E", url |-> <<>>] }

\* for c in candidates: if c.url and c.url not in seen_urls: ...append(c)
RECURSIVE Collect(_, _)
Collect(all_candidates, found) ==
    IF found = <<>> THEN all_candidates
    ELSE LET c == Head(found)
             seen_urls == {all_candidates[i].url : i \in 1..Len(all_candidates)}
         IN IF c.url # <<>> /\ c.url \notin seen_urls
            THEN Collect(Append(all_candidates, c), Tail(found))
            ELSE Collect(all_candidates, Tail(found))

PubIdle ==
    /\ outputs = NoOutputs
    /\ files = [f \in FileNames |-> NoFile]
    /\ last_updated = Blank
    /\ writes = <<>>
    /\ raised_in = {}

\* a digest of an earlier day, without stories
OldDigest(d) ==
    [kind |-> "digest", date |-> IsoFormat(d), stories |-> <<>>,
     metadata |-> [run_date |-> IsoFormat(d), total_discovered |-> 0,
                   after_sentinel |-> 0, clusters_formed |-> 0,
                   after_dedup |-> 0, stories_published |-> 0,
                   total_api_calls |-> 0]]

\* an index entry that counts no stories
ArchiveEntryUncounted(d, n) == [date |-> IsoFormat(d), file |-> FileDated(d), story_count |-> 0]

\* ArchiveEntry(date=today, file=dated_filename, story_count=len(stories))
ArchiveEntry(d, n) == [date |-> IsoFormat(d), file |-> FileDated(d), story_count |-> n]

\* the output directory a run can find: empty, or as a run of day d left it
DirAfter(d) ==
    [f \in FileNames |->
        IF f = FileLatest \/ f = FileDated(d) THEN OldDigest(d)
        ELSE IF f = FileArchive
        THEN [kind |-> "index", digests |-> << ArchiveEntry(d, 0) >>]
        ELSE NoFile]

\* the history entries a run can find: an earlier cluster of one url, seen
\* long ago or the day before
PriorEntries ==
    { [cluster_id |-> ComputeClusterId(<< <<"a">> >>), label |-> "old",
       urls |-> << <<"a">> >>, first_seen |-> IsoFormat(0),
       last_seen |-> IsoFormat(d)] : d \in {0, MaxDay - 1} }

\* what a run can find: nothing, or the history file and the output
\* directory of an earlier run
PriorStates ==
    { [history |-> <<>>, stamp |-> Blank, dir |-> [f \in FileNames |-> NoFile]] }
    \cup
    { [history |-> << e >>, stamp |-> IsoFormat(MaxDay - 1),
       dir |-> DirAfter(MaxDay - 1)] : e \in PriorEntries }

\* before a run: some history file, some output directory
RunInit ==
    /\ entries = <<>>
    /\ clock \in {MaxDay - 1, MaxDay}
    /\ hist_pc = "idle"
    /\ existing = <<>>
    /\ hist_pending = 0
    /\ hist_op = "none"
    /\ arg_today = 0
    /\ arg_entry = NoEntry
    /\ removed_count = 0
    /\ dedup_window = <<>>
    /\ \E prior \in PriorStates :
           /\ history_file = prior.history
           /\ last_updated = prior.stamp
           /\ files = prior.dir
    /\ run_pc = "idle"
    /\ run_date = 0
    /\ new_entries = <<>>
    /\ runs = 0
    /\ history_before = <<>>
    /\ outputs = NoOutputs
    /\ writes = <<>>
    /\ raised_in = {}

\* the date changes while the run is under way
Midnight ==
    /\ run_pc \notin {"off", "idle", "done", "raised"}
    /\ clock < MaxDay
    /\ clock' = clock + 1
    /\ UNCHANGED <<entries, hist_pc, existing, hist_pending, hist_op, arg_today,
                   arg_entry, removed_count, dedup_window>>
    /\ UNCHANGED <<gwVars, parseVars, idVars, archVars, pipeVars, pubVars>>

\* GeminiClient(settings), parse_memory, HistoryManager(settings), load(),
\* apply_retention()
RunLoad ==
    /\ run_pc = "idle"
    /\ runs = 0
    /\ runs' = 1
    /\ entries' = SelectSeq(history_file, LAMBDA e : RetentionKeeps(e, clock))
    /\ removed_count' = Len(history_file) - Len(entries')
    /\ history_before' = entries'
    /\ hist_op' = "retention"
    /\ arg_today' = clock
    /\ run_pc' = "loaded"
    /\ writes' = <<>>
    /\ raised_in' = {}
    /\ UNCHANGED <<clock, hist_pc, existing, hist_pending, arg_entry, dedup_window,
                   history_file, run_date, new_entries, outputs, files,
                   last_updated>>
    /\ UNCHANGED <<gwVars, parseVars, idVars, archVars>>

\* a load that swallows its error and goes on with an empty store
RunLoadFailsQuietly ==
    /\ run_pc = "idle"
    /\ runs = 0
    /\ runs' = 1
    /\ entries' = <<>>
    /\ history_before' = <<>>
    /\ run_pc' = "loaded"
    /\ writes' = <<>>
    /\ raised_in' = {"load"}
    /\ UNCHANGED <<clock, hist_pc, existing, hist_pending, hist_op, arg_today,
                   arg_entry, removed_count, dedup_window>>
    /\ UNCHANGED <<history_file, run_date, new_entries, outputs, files,
                   last_updated>>
    /\ UNCHANGED <<gwVars, parseVars, idVars, archVars>>

\* load() raises: the file cannot be read, is no JSON or is no HistoryFile
RunLoadFails ==
    /\ run_pc = "idle"
    /\ runs = 0
    /\ runs' = 1
    /\ run_pc' = "raised"
    /\ writes' = <<>>
    /\ raised_in' = {"load"}
    /\ UNCHANGED <<history_file, run_date, new_entries, history_before, outputs,
                   files, last_updated>>
    /\ UNCHANGED <<gwVars, parseVars, idVars, archVars, histVars>>

\* today = date.today().isoformat(); PolyglotScout.run up to its Gemini
\* queries: the other sources have given `found`, and there are n pairs of
\* an interest and a language
RunScout(found, n) ==
    /\ run_pc = "loaded"
    /\ run_date' = clock
    /\ outputs' = [outputs EXCEPT !.scout =
                      [candidates |-> Collect(<<>>, found), api_calls |-> 0,
                       use_grounding |-> TRUE, queries |-> n]]
    /\ run_pc' = "scout"
    /\ UNCHANGED <<history_file, new_entries, runs, history_before, files,
                   last_updated, writes, raised_in>>
    /\ UNCHANGED <<gwVars, parseVars, idVars, archVars, histVars>>

\* a query with search grounding returns `found`
ScoutQueryOk(found) ==
    /\ run_pc = "scout"
    /\ outputs.scout.queries > 0
    /\ outputs.scout.use_grounding
    /\ RecordCall(now)
    /\ outputs' = [outputs EXCEPT
                      !.scout.candidates = Collect(@, found),
                      !.scout.api_calls = @ + 1,
                      !.scout.queries = @ - 1]
    /\ UNCHANGED <<gwRest, parseVars, idVars, archVars, histVars, pipeVars>>
    /\ UNCHANGED <<files, last_updated, writes, raised_in>>

\* a query with search grounding raises: no grounding for the queries left
ScoutQueryFails ==
    /\ run_pc = "scout"
    /\ outputs.scout.queries > 0
    /\ outputs.scout.use_grounding
    /\ outputs' = [outputs EXCEPT
                      !.scout.use_grounding = FALSE,
                      !.scout.api_calls = @ + 1,
                      !.scout.queries = @ - 1]
    /\ raised_in' = raised_in \cup {"scout"}
    /\ UNCHANGED <<gwVars, parseVars, idVars, archVars, histVars, pipeVars>>
    /\ UNCHANGED <<files, last_updated, writes>>

\* a Scout that goes on calling after a failure
ScoutQueryRetried ==
    /\ run_pc = "scout"
    /\ outputs.scout.queries > 0
    /\ ~outputs.scout.use_grounding
    /\ RecordCall(now)
    /\ outputs' = [outputs EXCEPT !.scout.api_calls = @ + 1,
                                  !.scout.queries = @ - 1]
    /\ UNCHANGED <<gwRest, parseVars, idVars, archVars, histVars, pipeVars>>
    /\ UNCHANGED <<files, last_updated, writes, raised_in>>

\* grounding is off: the pair is skipped
ScoutQuerySkipped ==
    /\ run_pc = "scout"
    /\ outputs.scout.queries > 0
    /\ ~outputs.scout.use_grounding
    /\ outputs' = [outputs EXCEPT !.scout.queries = @ - 1]
    /\ UNCHANGED <<gwVars, parseVars, idVars, archVars, histVars, pipeVars>>
    /\ UNCHANGED <<files, last_updated, writes, raised_in>>

\* PolyglotScout.run returns its ScoutOutput, its other locals are gone
ScoutReturn ==
    /\ run_pc = "scout"
    /\ outputs.scout.queries = 0
    /\ outputs' = [outputs EXCEPT !.scout.use_grounding = TRUE]
    /\ run_pc' = "sentinel"
    /\ UNCHANGED <<history_file, run_date, new_entries, runs, history_before>>
    /\ UNCHANGED <<gwVars, parseVars, idVars, archVars, histVars>>
    /\ UNCHANGED <<files, last_updated, writes, raised_in>>

\* the candidates whose text matches no muted and no snoozed topic; `muted`
\* holds the titles that match one
Phase1Passed(cands, muted) == SelectSeq(cands, LAMBDA c : c.title \notin muted)

\* scores that let nothing through
FailedScoresZero(n) == [i \in 1..n |-> 0]

\* [1.0] * len(phase1_passed)
FailedScores(n) == [i \in 1..n |-> 10]

\* the loop over phase1_passed from position i on
RECURSIVE Phase2Passed(_, _, _)
Phase2Passed(phase1_passed, scores, i) ==
    IF i > Len(phase1_passed) THEN <<>>
    ELSE LET c == phase1_passed[i]
             score == IF i <= Len(scores) THEN scores[i] ELSE 0
             rest == Phase2Passed(phase1_passed, scores, i + 1)
         IN IF score >= sentinel_relevance_threshold
            THEN << [title |-> c.title, url |-> c.url,
                     relevance_score |-> score] >> \o rest
            ELSE rest

\* a SentinelOutput that does not count what the rules have held back
SentinelOutputRulesUncounted(cands, muted, scores) ==
    LET phase1_passed == Phase1Passed(cands, muted)
        passed == Phase2Passed(phase1_passed, scores, 1)
    IN [passed |-> passed,
        filtered_count |-> Len(phase1_passed) - Len(passed),
        api_calls |-> 1]

\* the SentinelOutput when the scoring has given (or been replaced by) scores
SentinelOutputOf(cands, muted, scores) ==
    LET phase1_passed == Phase1Passed(cands, muted)
        passed == Phase2Passed(phase1_passed, scores, 1)
    IN [passed |-> passed,
        filtered_count |-> Len(cands) - Len(passed),
        api_calls |-> 1]

\* Sentinel.run: nothing is left after the rules
SentinelShortCircuit(muted) ==
    /\ run_pc = "sentinel"
    /\ Phase1Passed(outputs.scout.candidates, muted) = <<>>
    /\ outputs' = [outputs EXCEPT !.sentinel =
                      [passed |-> <<>>,
                       filtered_count |-> Len(outputs.scout.candidates),
                       api_calls |-> 0]]
    /\ run_pc' = "window"
    /\ UNCHANGED <<history_file, run_date, new_entries, runs, history_before>>
    /\ UNCHANGED <<gwVars, parseVars, idVars, archVars, histVars>>
    /\ UNCHANGED <<files, last_updated, writes, raised_in>>

\* Sentinel.run: the scoring call returns `scores` (none when the answer is
\* no ScoresResponse)
SentinelScored(muted, scores) ==
    /\ run_pc = "sentinel"
    /\ Phase1Passed(outputs.scout.candidates, muted) # <<>>
    /\ RecordCall(now)
    /\ outputs' = [outputs EXCEPT !.sentinel =
                      SentinelOutputOf(outputs.scout.candidates, muted, scores)]
    /\ run_pc' = "window"
    /\ UNCHANGED <<history_file, run_date, new_entries, runs, history_before>>
    /\ UNCHANGED <<gwRest, parseVars, idVars, archVars, histVars>>
    /\ UNCHANGED <<files, last_updated, writes, raised_in>>

\* Sentinel.run: the scoring call raises
SentinelFailed(muted) ==
    /\ run_pc = "sentinel"
    /\ Phase1Passed(outputs.scout.candidates, muted) # <<>>
    /\ outputs' = [outputs EXCEPT !.sentinel =
                      SentinelOutputOf(outputs.scout.candidates, muted,
                          FailedScores(Len(Phase1Passed(outputs.scout.candidates,
                                                        muted))))]
    /\ raised_in' = raised_in \cup {"sentinel"}
    /\ run_pc' = "window"
    /\ UNCHANGED <<history_file, run_date, new_entries, runs, history_before>>
    /\ UNCHANGED <<gwVars, parseVars, idVars, archVars, histVars>>
    /\ UNCHANGED <<files, last_updated, writes>>

\* get_dedup_window(), and Architect.run is entered
RunArchitect ==
    /\ run_pc = "window"
    /\ dedup_window' = SelectSeq(entries, LAMBDA e : InWindow(e, clock))
    /\ hist_op' = "window"
    /\ arg_today' = clock
    /\ candidates' = outputs.sentinel.passed
    /\ history_window' = dedup_window'
    /\ arch_pc' = "start"
    /\ raw_clusters' = <<>>
    /\ pending' = 0
    /\ clusters' = <<>>
    /\ deduped_count' = 0
    /\ api_calls' = 0
    /\ grouping_failed' = FALSE
    /\ formed' = <<>>
    /\ groups_seen' = 0
    /\ valid_groups' = 0
    /\ run_pc' = "architect"
    /\ UNCHANGED <<last_rc, entries, clock, hist_pc, existing, hist_pending,
                   arg_entry, removed_count>>
    /\ UNCHANGED <<history_file, run_date, new_entries, runs, history_before>>
    /\ UNCHANGED <<gwVars, parseVars, idVars, pubVars>>

\* Architect.run has raised: so does run_pipeline
RunIndexError ==
    /\ run_pc = "architect"
    /\ arch_pc = "raised"
    /\ run_pc' = "raised"
    /\ raised_in' = raised_in \cup {"index"}
    /\ UNCHANGED <<history_file, run_date, new_entries, runs, history_before>>
    /\ UNCHANGED <<gwVars, parseVars, idVars, archVars, histVars>>
    /\ UNCHANGED <<outputs, files, last_updated, writes>>

\* the ids of the clusters of a list
ClusterIds(cluster_list) == {cluster_list[k].cluster_id : k \in 1..Len(cluster_list)}

\* an Analyst that gives analyses only for the clusters the answer names
AnalysesOfAnswered(cluster_list, answered) ==
    LET named == SelectSeq(cluster_list, LAMBDA c : c.cluster_id \in answered)
    IN [k \in 1..Len(named) |->
           [cluster_id |-> named[k].cluster_id,
            label |-> named[k].label,
            best_url |-> named[k].best_url,
            knowledge_depth |-> 5]]

\* one AnalysisResult per cluster_data item, in order; `answered` are the
\* keys of response_map, a cluster outside it gets the defaults
Analyses(cluster_list, answered) ==
    [k \in 1..Len(cluster_list) |->
        [cluster_id |-> cluster_list[k].cluster_id,
         label |-> cluster_list[k].label,
         best_url |-> cluster_list[k].best_url,
         knowledge_depth |-> IF cluster_list[k].cluster_id \in answered
                             THEN 5 ELSE 1]]

\* TechnicalAnalyst.run: no clusters
AnalystShortCircuit ==
    /\ run_pc = "architect"
    /\ arch_pc = "returned"
    /\ clusters = <<>>
    /\ outputs' = [outputs EXCEPT !.analyst = [analyses |-> <<>>, api_calls |-> 0]]
    /\ run_pc' = "editor"
    /\ UNCHANGED <<history_file, run_date, new_entries, runs, history_before>>
    /\ UNCHANGED <<gwVars, parseVars, idVars, archVars, histVars>>
    /\ UNCHANGED <<files, last_updated, writes, raised_in>>

\* TechnicalAnalyst.run: the batch call returns analyses of the clusters
\* `answered` (of none when the answer is no BatchAnalysisResponse)
AnalystAnalyzed(answered) ==
    /\ run_pc = "architect"
    /\ arch_pc = "returned"
    /\ clusters # <<>>
    /\ RecordCall(now)
    /\ outputs' = [outputs EXCEPT !.analyst =
                      [analyses |-> Analyses(clusters, answered), api_calls |-> 1]]
    /\ run_pc' = "editor"
    /\ UNCHANGED <<history_file, run_date, new_entries, runs, history_before>>
    /\ UNCHANGED <<gwRest, parseVars, idVars, archVars, histVars>>
    /\ UNCHANGED <<files, last_updated, writes, raised_in>>

\* TechnicalAnalyst.run: the batch call returns, for a cluster of the run, a
\* knowledge_depth outside 1..10, which ClusterAnalysis takes and
\* AnalysisResult(...) refuses: the ValidationError leaves run and
\* run_pipeline
AnalystDepthError ==
    /\ run_pc = "architect"
    /\ arch_pc = "returned"
    /\ clusters # <<>>
    /\ RecordCall(now)
    /\ raised_in' = raised_in \cup {"depth"}
    /\ run_pc' = "raised"
    /\ UNCHANGED <<history_file, run_date, new_entries, runs, history_before>>
    /\ UNCHANGED <<gwRest, parseVars, idVars, archVars, histVars>>
    /\ UNCHANGED <<outputs, files, last_updated, writes>>

\* TechnicalAnalyst.run: the batch call raises
AnalystFailed ==
    /\ run_pc = "architect"
    /\ arch_pc = "returned"
    /\ clusters # <<>>
    /\ outputs' = [outputs EXCEPT !.analyst =
                      [analyses |-> Analyses(clusters, {}), api_calls |-> 1]]
    /\ raised_in' = raised_in \cup {"analyst"}
    /\ run_pc' = "editor"
    /\ UNCHANGED <<history_file, run_date, new_entries, runs, history_before>>
    /\ UNCHANGED <<gwVars, parseVars, idVars, archVars, histVars>>
    /\ UNCHANGED <<files, last_updated, writes>>

UnknownId == <<"?">>

\* the drafts an answer of the editor call can hold: of the first analysed
\* cluster and through on breaking, of no analysed cluster and through on
\* importance, held back on snr, held back on breaking and importance
DraftPool(analyses) ==
    { [cluster_id |-> analyses[k].cluster_id,
       metrics |-> [breaking |-> 8, importance |-> 7, snr |-> 5]] :
          k \in 1..Min(1, Len(analyses)) }
    \cup
    { [cluster_id |-> UnknownId,
       metrics |-> [breaking |-> 7, importance |-> 8, snr |-> 5]],
      [cluster_id |-> UnknownId,
       metrics |-> [breaking |-> 8, importance |-> 8, snr |-> 4]],
      [cluster_id |-> UnknownId,
       metrics |-> [breaking |-> 7, importance |-> 7, snr |-> 5]] }

DraftLists(analyses) == SeqsUpTo(DraftPool(analyses), 2)

\* a threshold test that asks for breaking and importance both
PassesBoth(m) ==
    /\ m.snr >= editor_snr_threshold
    /\ m.breaking >= editor_breaking_threshold
    /\ m.importance >= editor_importance_threshold

\* snr_ok and (breaking_ok or importance_ok)
Passes(m) ==
    /\ m.snr >= editor_snr_threshold
    /\ \/ m.breaking >= editor_breaking_threshold
       \/ m.importance >= editor_importance_threshold

\* analysis_map.get(id): the last analysis of that id, if any
HasAnalysis(analyses, id) == \E k \in 1..Len(analyses) : analyses[k].cluster_id = id
AnalysisOf(analyses, id) ==
    analyses[CHOOSE k \in 1..Len(analyses) :
                 /\ analyses[k].cluster_id = id
                 /\ \A j \in (k + 1)..Len(analyses) : analyses[j].cluster_id # id]

\* DigestStory(...)
StoryOf(draft, analyses) ==
    [cluster_id |-> draft.cluster_id,
     metrics |-> draft.metrics,
     sources |-> IF HasAnalysis(analyses, draft.cluster_id)
                 THEN << AnalysisOf(analyses, draft.cluster_id).best_url >>
                 ELSE <<>>,
     label |-> IF HasAnalysis(analyses, draft.cluster_id)
               THEN AnalysisOf(analyses, draft.cluster_id).label
               ELSE ""]

\* (breaking, importance) of s is before that of t in ascending order
KeyLess(s, t) ==
    \/ s.metrics.breaking < t.metrics.breaking
    \/ /\ s.metrics.breaking = t.metrics.breaking
       /\ s.metrics.importance < t.metrics.importance

\* stories.sort(key=..., reverse=True): descending, equal keys in the order
\* they had
RECURSIVE SortStories(_)
SortStories(list) ==
    IF list = <<>> THEN <<>>
    ELSE LET first == CHOOSE i \in 1..Len(list) :
                          /\ \A j \in 1..Len(list) : ~KeyLess(list[i], list[j])
                          /\ \A j \in 1..(i - 1) : KeyLess(list[j], list[i])
         IN << list[first] >> \o
            SortStories([k \in 1..(Len(list) - 1) |->
                            IF k < first THEN list[k] ELSE list[k + 1]])

\* the stories of the drafts
StoriesOf(drafts, analyses) ==
    LET kept == SelectSeq(drafts, LAMBDA d : Passes(d.metrics))
    IN SortStories([k \in 1..Len(kept) |-> StoryOf(kept[k], analyses)])

\* an Editor without the early return: the call is made for no analyses
EditorCallsForNothing ==
    /\ run_pc = "editor"
    /\ outputs.analyst.analyses = <<>>
    /\ RecordCall(now)
    /\ outputs' = [outputs EXCEPT !.stories = <<>>]
    /\ run_pc' = "digest"
    /\ UNCHANGED <<history_file, run_date, new_entries, runs, history_before>>
    /\ UNCHANGED <<gwRest, parseVars, idVars, archVars, histVars>>
    /\ UNCHANGED <<files, last_updated, writes, raised_in>>

\* MasterEditor.run: no analyses
EditorShortCircuit ==
    /\ run_pc = "editor"
    /\ outputs.analyst.analyses = <<>>
    /\ outputs' = [outputs EXCEPT !.stories = <<>>]
    /\ run_pc' = "digest"
    /\ UNCHANGED <<history_file, run_date, new_entries, runs, history_before>>
    /\ UNCHANGED <<gwVars, parseVars, idVars, archVars, histVars>>
    /\ UNCHANGED <<files, last_updated, writes, raised_in>>

\* MasterEditor.run: the call returns `drafts` (none when the answer is no
\* EditorResponse)
EditorEdited(drafts) ==
    /\ run_pc = "editor"
    /\ outputs.analyst.analyses # <<>>
    /\ RecordCall(now)
    /\ outputs' = [outputs EXCEPT
                      !.stories = StoriesOf(drafts, outputs.analyst.analyses)]
    /\ run_pc' = "digest"
    /\ UNCHANGED <<history_file, run_date, new_entries, runs, history_before>>
    /\ UNCHANGED <<gwRest, parseVars, idVars, archVars, histVars>>
    /\ UNCHANGED <<files, last_updated, writes, raised_in>>

\* MasterEditor.run: the call raises
EditorFailed ==
    /\ run_pc = "editor"
    /\ outputs.analyst.analyses # <<>>
    /\ outputs' = [outputs EXCEPT !.stories = <<>>]
    /\ raised_in' = raised_in \cup {"editor"}
    /\ run_pc' = "digest"
    /\ UNCHANGED <<history_file, run_date, new_entries, runs, history_before>>
    /\ UNCHANGED <<gwVars, parseVars, idVars, archVars, histVars>>
    /\ UNCHANGED <<files, last_updated, writes>>

\* a digest that counts only the surviving clusters as formed
DigestOfSurvivors(today, story_list, discovered, passed, surviving, deduped, calls) ==
    [kind |-> "digest",
     date |-> IsoFormat(today),
     stories |-> story_list,
     metadata |-> [run_date |-> IsoFormat(today),
                   total_discovered |-> Len(discovered),
                   after_sentinel |-> Len(passed),
                   clusters_formed |-> Len(surviving),
                   after_dedup |-> Len(surviving),
                   stories_published |-> Len(story_list),
                   total_api_calls |-> calls]]

\* DailyDigest(...)
DigestOf(today, story_list, discovered, passed, surviving, deduped, calls) ==
    [kind |-> "digest",
     date |-> IsoFormat(today),
     stories |-> story_list,
     metadata |-> [run_date |-> IsoFormat(today),
                   total_discovered |-> Len(discovered),
                   after_sentinel |-> Len(passed),
                   clusters_formed |-> Len(surviving) + deduped,
                   after_dedup |-> Len(surviving),
                   stories_published |-> Len(story_list),
                   total_api_calls |-> calls]]

\* the digest is built, the new entries are built and add_entries is entered
RunDigest ==
    /\ run_pc = "digest"
    /\ outputs' = [outputs EXCEPT !.digest =
                      DigestOf(run_date, outputs.stories, outputs.scout.candidates,
                               outputs.sentinel.passed, clusters, deduped_count,
                               call_count[self])]
    /\ new_entries' = [k \in 1..Len(clusters) |-> EntryOfCluster(clusters[k], run_date)]
    /\ existing' = ExistingOf(entries)
    /\ hist_op' = "begin"
    /\ run_pc' = "adding"
    /\ UNCHANGED <<entries, clock, hist_pc, hist_pending, arg_today, arg_entry,
                   removed_count, dedup_window, history_file, run_date, runs,
                   history_before>>
    /\ UNCHANGED <<gwVars, parseVars, idVars, archVars>>
    /\ UNCHANGED <<files, last_updated, writes, raised_in>>

\* add_entries is over: save() stamps the date and writes the history file
RunSaveHistory ==
    /\ run_pc = "adding"
    /\ new_entries = <<>>
    /\ last_updated' = IsoFormat(clock)
    /\ history_file' = entries
    /\ writes' = Append(writes, FileHistory)
    /\ run_pc' = "saved"
    /\ UNCHANGED <<run_date, new_entries, runs, history_before, outputs, files,
                   raised_in>>
    /\ UNCHANGED <<gwVars, parseVars, idVars, archVars, histVars>>

\* save() raises before anything is written: so does run_pipeline
RunSaveFails ==
    /\ run_pc = "adding"
    /\ new_entries = <<>>
    /\ raised_in' = raised_in \cup {"save"}
    /\ run_pc' = "raised"
    /\ UNCHANGED <<history_file, run_date, new_entries, runs, history_before,
                   outputs, files, last_updated, writes>>
    /\ UNCHANGED <<gwVars, parseVars, idVars, archVars, histVars>>

\* output_path.write_text(digest_json)
RunWriteLatest ==
    /\ run_pc = "saved"
    /\ files' = [files EXCEPT ![FileLatest] = outputs.digest]
    /\ writes' = Append(writes, FileLatest)
    /\ run_pc' = "latest"
    /\ UNCHANGED <<history_file, run_date, new_entries, runs, history_before,
                   outputs, last_updated, raised_in>>
    /\ UNCHANGED <<gwVars, parseVars, idVars, archVars, histVars>>

\* a dated file named after the date at the time of the write
RunWriteDatedByClock ==
    /\ run_pc = "latest"
    /\ files' = [files EXCEPT ![FileDated(clock)] = outputs.digest]
    /\ writes' = Append(writes, FileDated(clock))
    /\ run_pc' = "dated"
    /\ UNCHANGED <<history_file, run_date, new_entries, runs, history_before,
                   outputs, last_updated, raised_in>>
    /\ UNCHANGED <<gwVars, parseVars, idVars, archVars, histVars>>

\* dated_path.write_text(digest_json)
RunWriteDated ==
    /\ run_pc = "latest"
    /\ files' = [files EXCEPT ![FileDated(run_date)] = outputs.digest]
    /\ writes' = Append(writes, FileDated(run_date))
    /\ run_pc' = "dated"
    /\ UNCHANGED <<history_file, run_date, new_entries, runs, history_before,
                   outputs, last_updated, raised_in>>
    /\ UNCHANGED <<gwVars, parseVars, idVars, archVars, histVars>>

\* an index that keeps the entries of today's date
WithoutDateKeepsAll(digests, today) == digests

\* [e for e in archive.digests if e.date != today]
WithoutDate(digests, today) ==
    SelectSeq(digests, LAMBDA e : e.date # IsoFormat(today))

\* an index left in the order of insertion
SortDigestsNot(digests) == digests

\* archive.digests.sort(key=lambda e: e.date, reverse=True): the ISO dates
\* are of one width, their order as strings is the order of the days
RECURSIVE SortDigests(_)
SortDigests(digests) ==
    IF digests = <<>> THEN <<>>
    ELSE LET first == CHOOSE i \in 1..Len(digests) :
                          /\ \A j \in 1..Len(digests) :
                                 digests[j].date.day <= digests[i].date.day
                          /\ \A j \in 1..(i - 1) :
                                 digests[j].date.day < digests[i].date.day
         IN << digests[first] >> \o
            SortDigests([k \in 1..(Len(digests) - 1) |->
                            IF k < first THEN digests[k] ELSE digests[k + 1]])

\* the archive index: read or new, today's entry replaced, sorted, written
RunWriteArchive ==
    /\ run_pc = "dated"
    /\ LET digests == IF files[FileArchive] = NoFile
                      THEN <<>>
                      ELSE files[FileArchive].digests
           inserted == << ArchiveEntry(run_date, Len(outputs.stories)) >>
                           \o WithoutDate(digests, run_date)
       IN files' = [files EXCEPT ![FileArchive] =
                       [kind |-> "index", digests |-> SortDigests(inserted)]]
    /\ writes' = Append(writes, FileArchive)
    /\ run_pc' = "done"
    /\ UNCHANGED <<history_file, run_date, new_entries, runs, history_before,
                   outputs, last_updated, raised_in>>
    /\ UNCHANGED <<gwVars, parseVars, idVars, archVars, histVars>>

\* the muted titles a persona can give
MutedSets == SUBSET {c.title : c \in ScoutPool}

\* one run of run_pipeline; the grouping answers have at most one group
RunNext ==
    \/ Midnight
    \/ RunLoad
    \/ RunLoadFails
    \/ run_pc = "loaded"
       /\ \E found \in SeqsUpTo(ScoutPool, 1), n \in 0..MaxQueries : RunScout(found, n)
    \/ run_pc = "scout"
       /\ \E found \in SeqsUpTo(ScoutPool, 1) : ScoutQueryOk(found)
    \/ ScoutQueryFails
    \/ ScoutQuerySkipped
    \/ ScoutReturn
    \/ run_pc = "sentinel" /\ \E muted \in MutedSets : SentinelShortCircuit(muted)
    \/ run_pc = "sentinel"
       /\ \E muted \in MutedSets, scores \in SeqsUpTo({5, 6}, 2) :
              SentinelScored(muted, scores)
    \/ run_pc = "sentinel" /\ \E muted \in MutedSets : SentinelFailed(muted)
    \/ RunArchitect
    \/ ArchShortCircuit
    \/ \E n \in 0..1 : ArchGrouped(n)
    \/ ArchGroupingFailed
    \/ arch_pc = "loop" /\ \E rc \in Groups : ArchOracleGroup(rc)
    \/ ArchFallbackGroup
    \/ ArchReturn
    \/ RunIndexError
    \/ AnalystShortCircuit
    \/ AnalystAnalyzed(ClusterIds(clusters))
    \/ AnalystDepthError
    \/ AnalystFailed
    \/ EditorShortCircuit
    \/ run_pc = "editor"
       /\ \E drafts \in DraftLists(outputs.analyst.analyses) : EditorEdited(drafts)
    \/ EditorFailed
    \/ RunDigest
    \/ run_pc = "adding"
       /\ \E url_list \in ClusterUrlOrders : RunAddEntry(url_list)
    \/ RunSaveHistory
    \/ RunSaveFails
    \/ RunWriteLatest
    \/ RunWriteDated
    \/ RunWriteArchive

\* run_pipeline up to save() on day `day`, of which the stories are kept:
\* the Editor has returned n of them
RunUpToSave(day, n) ==
    /\ run_pc \in {"idle", "done"}
    /\ runs < MaxRuns
    /\ runs' = runs + 1
    /\ clock' = day
    /\ run_date' = day
    /\ LET story_list == [k \in 1..n |->
                              StoryOf([cluster_id |-> UnknownId,
                                       metrics |-> [breaking |-> 8,
                                                    importance |-> 8,
                                                    snr |-> 5]], <<>>)]
       IN outputs' = [outputs EXCEPT
                         !.stories = story_list,
                         !.digest = DigestOf(day, story_list, <<>>, <<>>, <<>>,
                                             0, 0)]
    /\ last_updated' = IsoFormat(day)
    /\ writes' = << FileHistory >>
    /\ run_pc' = "saved"
    /\ UNCHANGED <<entries, hist_pc, existing, hist_pending, hist_op, arg_today,
                   arg_entry, removed_count, dedup_window>>
    /\ UNCHANGED <<history_file, new_entries, history_before, files, raised_in>>
    /\ UNCHANGED <<gwVars, parseVars, idVars, archVars>>

\* run after run, seen from the output directory
ArchiveNext ==
    \/ \E day \in Days, n \in 0..MaxStories : RunUpToSave(day, n)
    \/ RunWriteLatest
    \/ RunWriteDated
    \/ RunWriteArchive

\* the clusters a stage that is run by itself can be given: one of each
\* candidate of the pool
ClusterPool ==
    { BuildCluster(<< c >>, <<>>, [label |-> c.title, candidate_indices |-> <<0>>,
                                   best_index |-> 0]) : c \in CandidatePool }

\* the drafts the Editor can be answered when it is run by itself
StageDrafts ==
    [cluster_id : {ComputeClusterId(<< <<"a">> >>), UnknownId},
     metrics : [breaking : {7, 8}, importance : {7, 8}, snr : {4, 5}]]

\* the cluster lists the Editor's analyses are of when it is run by itself
StageClusterLists ==
    { <<>> } \cup { << c >> : c \in ClusterPool }

\* what a stage that is run by itself is given besides the output of the
\* stage before: the persona's muted titles and the answers of the oracle
NoGiven == [muted |-> {}, scores |-> <<>>, answered |-> {}, drafts |-> <<>>]

\* one stage is about to run on some input, with some persona and some
\* answer of the oracle to come
StagesInit ==
    /\ history_file = <<>>
    /\ run_date = 0
    /\ new_entries = <<>>
    /\ runs = 1
    /\ history_before = <<>>
    /\ files = [f \in FileNames |-> NoFile]
    /\ last_updated = Blank
    /\ writes = <<>>
    /\ raised_in = {}
    /\ candidates = <<>>
    /\ history_window = <<>>
    /\ raw_clusters = <<>>
    /\ pending = 0
    /\ deduped_count = 0
    /\ api_calls = 0
    /\ grouping_failed = FALSE
    /\ formed = <<>>
    /\ groups_seen = 0
    /\ valid_groups = 0
    /\ last_rc = NoGroup
    /\ \/ /\ run_pc = "sentinel"
          /\ arch_pc = "off"
          /\ clusters = <<>>
          /\ \E cands \in SeqsUpTo(CandidatePool, MaxItems),
                muted \in SUBSET {c.title : c \in CandidatePool},
                scores \in SeqsUpTo({5, 6}, MaxItems + 1) :
                 outputs = [scout |-> [NoScout EXCEPT !.candidates = cands],
                            sentinel |-> NoSentinel, analyst |-> NoAnalyst,
                            stories |-> <<>>, digest |-> NoFile,
                            given |-> [NoGiven EXCEPT !.muted = muted,
                                                      !.scores = scores]]
       \/ /\ run_pc = "architect"
          /\ arch_pc = "returned"
          /\ clusters \in SeqsUpTo(ClusterPool, MaxItems)
          /\ \E answered \in SUBSET (ClusterIds(clusters) \cup {UnknownId}) :
                 outputs = [scout |-> NoScout, sentinel |-> NoSentinel,
                            analyst |-> NoAnalyst, stories |-> <<>>,
                            digest |-> NoFile,
                            given |-> [NoGiven EXCEPT !.answered = answered]]
       \/ /\ run_pc = "editor"
          /\ arch_pc = "returned"
          /\ clusters \in StageClusterLists
          /\ \E drafts \in SeqsUpTo(StageDrafts, MaxStories) :
                 outputs = [scout |-> NoScout, sentinel |-> NoSentinel,
                            analyst |-> [analyses |-> Analyses(clusters,
                                                          ClusterIds(clusters)),
                                         api_calls |-> IF clusters = <<>>
                                                       THEN 0 ELSE 1],
                            stories |-> <<>>, digest |-> NoFile,
                            given |-> [NoGiven EXCEPT !.drafts = drafts]]

\* the answers of the grouping call that a run and its repetition get
RerunGroupings ==
    { <<>>,
      << [label |-> "L", candidate_indices |-> <<0>>, best_index |-> 0] >>,
      << [label |-> "L", candidate_indices |-> <<0, 1>>, best_index |-> 1] >> }

\* the metrics the Editor's answer gives every analysis it is asked about
RerunMetrics ==
    { [breaking |-> 8, importance |-> 7, snr |-> 5],
      [breaking |-> 7, importance |-> 7, snr |-> 5] }

\* no run has been remembered
NoFirst == [stories |-> <<>>, dated |-> NoFile, story_count |-> 0 - 1,
            recorded |-> <<>>]

\* index.json's story_count for day d, -1 without an entry of that day
IndexCount(dir, d) ==
    IF dir[FileArchive] = NoFile THEN 0 - 1
    ELSE LET digests == dir[FileArchive].digests
             at == {k \in 1..Len(digests) : digests[k].date = IsoFormat(d)}
         IN IF at = {} THEN 0 - 1 ELSE digests[CHOOSE k \in at : TRUE].story_count

\* the Editor's answer: one draft per analysis, all with the same metrics
DraftsOfAll(analyses, m) ==
    [k \in 1..Len(analyses) |-> [cluster_id |-> analyses[k].cluster_id, metrics |-> m]]

\* main() is about to be run on an empty output directory, early enough for
\* a second run at the end of the dedup window; what the sources, the persona
\* and the oracle will give this run and its repetition is settled
RerunInit ==
    /\ entries = <<>>
    /\ clock = MaxDay - 1 - DedupWindowDays
    /\ hist_pc = "idle"
    /\ existing = <<>>
    /\ hist_pending = 0
    /\ hist_op = "none"
    /\ arg_today = 0
    /\ arg_entry = NoEntry
    /\ removed_count = 0
    /\ dedup_window = <<>>
    /\ history_file = <<>>
    /\ last_updated = Blank
    /\ files = [f \in FileNames |-> NoFile]
    /\ run_pc = "idle"
    /\ run_date = 0
    /\ new_entries = <<>>
    /\ runs = 0
    /\ history_before = <<>>
    /\ writes = <<>>
    /\ raised_in = {}
    /\ \E found \in SeqsUpTo(ScoutPool, 1), queries \in 0..1,
          answer \in {<<>>, << [title |-> "A", url |-> <<"a">>] >>},
          muted \in {{}, {"A"}},
          scores \in {<<>>, <<6>>, <<6, 6>>, <<5, 6>>},
          grouping_fails \in BOOLEAN, groups \in RerunGroupings,
          metrics \in RerunMetrics :
           outputs = [scout |-> NoScout, sentinel |-> NoSentinel,
                      analyst |-> NoAnalyst, stories |-> <<>>, digest |-> NoFile,
                      replayed |-> [found |-> found, queries |-> queries,
                                    answer |-> answer, muted |-> muted,
                                    scores |-> scores,
                                    grouping_fails |-> grouping_fails,
                                    groups |-> groups, metrics |-> metrics,
                                    again |-> FALSE, first |-> NoFirst]]

\* main() has returned and is run once more, `days` days later: what the
\* first run has published and recorded is remembered, and a new GeminiClient
\* and a new HistoryManager are constructed
RunAgain(days) ==
    /\ run_pc = "done"
    /\ runs = 1
    /\ ~outputs.replayed.again
    /\ clock + days <= MaxDay
    /\ clock' = clock + days
    /\ outputs' = [outputs EXCEPT
                      !.replayed.again = TRUE,
                      !.replayed.first =
                          [stories |-> outputs.digest.stories,
                           dated |-> files[FileDated(run_date)],
                           story_count |-> IndexCount(files, run_date),
                           recorded |-> history_file]]
    /\ run_pc' = "idle"
    /\ runs' = 0
    /\ entries' = <<>>
    /\ existing' = <<>>
    /\ hist_pending' = 0
    /\ hist_op' = "none"
    /\ arg_today' = 0
    /\ arg_entry' = NoEntry
    /\ removed_count' = 0
    /\ dedup_window' = <<>>
    /\ call_count' = [c \in Clients |-> 0]
    /\ last_call_time' = [c \in Clients |-> 0]
    /\ UNCHANGED <<hist_pc, history_file, run_date, new_entries,
                   history_before, files, last_updated, writes, raised_in>>
    /\ UNCHANGED <<gwRest, parseVars, idVars, archVars>>

\* a run and its repetition, both given the same by the sources, the persona
\* and the oracle, and neither failing
RerunNext ==
    \/ Midnight
    \/ RunLoad
    \/ \E days \in 0..DedupWindowDays : RunAgain(days)
    \/ RunScout(outputs.replayed.found, outputs.replayed.queries)
    \/ ScoutQueryOk(outputs.replayed.answer)
    \/ ScoutReturn
    \/ SentinelShortCircuit(outputs.replayed.muted)
    \/ SentinelScored(outputs.replayed.muted, outputs.replayed.scores)
    \/ RunArchitect
    \/ ArchShortCircuit
    \/ ~outputs.replayed.grouping_fails
       /\ ArchGrouped(Len(outputs.replayed.groups))
    \/ outputs.replayed.grouping_fails /\ ArchGroupingFailed
    \/ arch_pc = "loop" /\ pending > 0 /\ ~grouping_failed
       /\ ArchOracleGroup(outputs.replayed.groups[
                              Len(outputs.replayed.groups) - pending + 1])
    \/ ArchFallbackGroup
    \/ ArchReturn
    \/ AnalystShortCircuit
    \/ AnalystAnalyzed(ClusterIds(clusters))
    \/ EditorShortCircuit
    \/ EditorEdited(DraftsOfAll(outputs.analyst.analyses, outputs.replayed.metrics))
    \/ RunDigest
    \/ run_pc = "adding"
       /\ \E url_list \in ClusterUrlOrders : RunAddEntry(url_list)
    \/ RunSaveHistory
    \/ RunWriteLatest
    \/ RunWriteDated
    \/ RunWriteArchive

\* a stage runs on what it was given
StagesNext ==
    \/ SentinelShortCircuit(outputs.given.muted)
    \/ SentinelScored(outputs.given.muted, outputs.given.scores)
    \/ SentinelFailed(outputs.given.muted)
    \/ AnalystShortCircuit
    \/ AnalystAnalyzed(outputs.given.answered)
    \/ AnalystDepthError
    \/ AnalystFailed
    \/ EditorShortCircuit
    \/ EditorEdited(outputs.given.drafts)
    \/ EditorFailed

\* the components after the Architect are not running
LaterIdle == HistIdle /\ PipeIdle /\ PubIdle

(***************************************************************************)
(* Specifications.                                                         *)
(***************************************************************************)
InitGateway == GatewayInit /\ ParseIdle /\ IdIdle /\ ArchIdle /\ LaterIdle

SpecGateway == InitGateway /\ [][GatewayNext]_vars

InitParse == GatewayInit /\ ParseInit /\ IdIdle /\ ArchIdle /\ LaterIdle

SpecParse == InitParse /\ [][ParseNext]_vars

InitClusterId == GatewayInit /\ ParseIdle /\ IdInit /\ ArchIdle /\ LaterIdle

SpecClusterId == InitClusterId /\ [][IdNext]_vars

InitClusterKey == GatewayInit /\ ParseIdle /\ KeyInit /\ ArchIdle /\ LaterIdle

SpecClusterKey == InitClusterKey /\ [][KeyNext]_vars

InitArchitect == GatewayInit /\ ParseIdle /\ IdIdle /\ ArchInit /\ LaterIdle

SpecArchitect == InitArchitect /\ [][ArchNext]_vars

SpecGroup == InitArchitect /\ [][GroupNext]_vars

InitHistory ==
    GatewayInit /\ ParseIdle /\ IdIdle /\ ArchIdle /\ HistInit /\ PipeIdle /\ PubIdle

SpecHistory == InitHistory /\ [][HistNext]_vars

SpecRetention == InitHistory /\ [][RetentionNext]_vars

InitPipeline ==
    GatewayInit /\ ParseIdle /\ IdIdle /\ ArchIdle /\ HistInit /\ PipeInit /\ PubIdle

SpecPipeline == InitPipeline /\ [][PipeNext]_vars

InitRun == GatewayInit /\ ParseIdle /\ IdIdle /\ ArchIdle /\ RunInit

SpecRun == InitRun /\ [][RunNext]_vars

InitArchive ==
    GatewayInit /\ ParseIdle /\ IdIdle /\ ArchIdle /\ HistIdle /\ PipeInit /\ PubIdle

SpecArchive == InitArchive /\ [][ArchiveNext]_vars

InitRerun == GatewayInit /\ ParseIdle /\ IdIdle /\ ArchIdle /\ RerunInit

SpecRerun == InitRerun /\ [][RerunNext]_vars

InitStages == GatewayInit /\ ParseIdle /\ IdIdle /\ HistIdle /\ StagesInit

SpecStages == InitStages /\ [][StagesNext]_vars

(***************************************************************************)
(* Claims about the gateway, checked under SpecGateway.                    *)
(***************************************************************************)
\* C1: every invocation's first outbound request leaves at least CALL_DELAY
\* seconds after the latest outbound request of the instance's previous
\* invocation, also when that invocation failed; only an instance's very
\* first invocation has no such wait.
C1_MinIntervalBetweenCalls == gap = -1 \/ gap >= CALL_DELAY

\* C2: a failure with a rate-limit signature that also says "limit: 0" ends
\* the invocation at once, whichever attempt it was: generate has raised, no
\* request was dispatched after the failed one and no sleep followed it.
C2_ZeroQuotaAbortsAtOnce ==
    seen_zero_quota =>
        /\ pc = "idle"
        /\ result = Raised
        /\ dispatched = attempt + 1
        /\ slept = attempt
        /\ now - last_dispatch[self] <= MaxLatency

C2_Witness ==
    /\ seen_zero_quota
    /\ result = Raised
    /\ dispatched = 3

\* C3: an invocation dispatches at most MAX_RETRIES requests; it returns the
\* text of the first request that succeeds; it gives up only after a
\* zero-quota failure or after MAX_RETRIES failed requests; and every step of
\* a running invocation either ends it or uses up one of its attempts.
C3_Bounded ==
    /\ dispatched <= MAX_RETRIES
    /\ attempt < MAX_RETRIES
    /\ pc = "call" => dispatched = attempt
    /\ pc = "idle" /\ result # NoResult => dispatched = attempt + 1
    /\ result = Raised /\ ~seen_zero_quota => dispatched = MAX_RETRIES
    /\ result.kind \in {"returned", "invalid"} /\ response_model = NoModel
           => result = [kind |-> "returned", value |-> response]

C3_Progress == pc = "call" => (pc' = "idle" \/ attempt' = attempt + 1)

C3_AtMostFiveAttempts == []C3_Bounded /\ [][C3_Progress]_vars

C3_Witness ==
    /\ result = Raised
    /\ ~seen_zero_quota
    /\ dispatched = MAX_RETRIES

\* C4: the sleep before retry k is INITIAL_BACKOFF * 2^(k-1) seconds after a
\* failure that is not rate-limiting and min(INITIAL_BACKOFF * 2^(k-1), 15)
\* after one that is; the backoff value doubles at every retry, capped or
\* not; nothing is slept after the failure of the last attempt.
C4_BackoffSchedule ==
    /\ backoff = INITIAL_BACKOFF * Pow2(slept)
    /\ slept <= MAX_RETRIES - 1
    /\ pc = "call" => slept = attempt
    /\ pc = "call" /\ attempt >= 1 =>
           wait = IF seen_rate_limit
                  THEN Min(INITIAL_BACKOFF * Pow2(attempt - 1), RATE_LIMIT_CAP)
                  ELSE INITIAL_BACKOFF * Pow2(attempt - 1)
    /\ pc = "idle" /\ result = Raised =>
           /\ slept = attempt
           /\ now - last_dispatch[self] <= MaxLatency

C4_Witness ==
    /\ pc = "call"
    /\ attempt = 4
    /\ ~seen_rate_limit
    /\ wait = 40
    /\ backoff = 80

\* C6: every invocation of generate, however it ends, adds one to the
\* instance's call_count and records the time of the call.
C6_EveryInvocationCounted ==
    \A c \in Clients :
        /\ call_count[c] = invoked[c]
        /\ invoked[c] > 0 => last_call_time[c] > 0


(***************************************************************************)
(* Claims about the output repair, checked under SpecParse.                *)
(***************************************************************************)
\* the chain as the claim states it: each step is tried when all the steps
\* before it failed, and the first success is the result
OrderedChain(t, model) ==
    LET cleaned == Cleaned(t)
        object == IF HasBoth(cleaned, "{", "}") THEN Between(cleaned, "{", "}") ELSE <<>>
        array == IF HasBoth(cleaned, "[", "]") THEN Between(cleaned, "[", "]") ELSE <<>>
    IN IF Validates(model, t) THEN Value(t)
       ELSE IF Validates(model, cleaned) THEN Value(cleaned)
       ELSE IF Validates(model, object) THEN Value(object)
       ELSE IF Validates(model, array) THEN Value(array)
       ELSE Failure

\* C5: with a shape requested and grounding enabled, the text is parsed by
\* the chain direct validation, validation without the fence, validation of
\* the first-{ to last-} substring, validation of the first-[ to last-]
\* substring; a later step is tried whenever all earlier ones failed, and the
\* call fails only if all four fail.
C5_OrderedFallbackChain ==
    parsed # NoResult => parsed = Returned(OrderedChain(text, shape))


(***************************************************************************)
(* Claims about compute_cluster_id.                                        *)
(***************************************************************************)
IsHex16(id) == Len(id) = 16 /\ \A i \in 1..16 : \E k \in 1..16 : id[i] = HexDigits[k]

\* C7 (SpecClusterId): the id depends only on the set of urls: a permutation
\* of a list, and the list with one of its urls appended, have the id of the
\* list; every id is a string of 16 hexadecimal digits.
C7_IdOfUrlSet ==
    cluster_ids # NotComputed =>
        /\ ToSet(urls) = ToSet(other_urls)
        /\ cluster_ids[1] = cluster_ids[2]
        /\ IsHex16(cluster_ids[1])

C7_Witness ==
    /\ cluster_ids # NotComputed
    /\ Len(urls) = 2
    /\ urls[1] # urls[2]
    /\ other_urls = <<urls[2], urls[1]>>
    /\ ~StrLess(urls[1], urls[2])

\* C8 as claimed (SpecClusterKey): any two different finite sets of url
\* strings have different canonical strings.
C8_DifferentSetsDifferentCanonical ==
    cluster_ids # NotComputed /\ ToSet(urls) # ToSet(other_urls)
        => canonical[1] # canonical[2]

HasNewline(url) == \E i \in 1..Len(url) : url[i] = "\n"
Plain(list) == list # <<>> /\ \A i \in 1..Len(list) : ~HasNewline(list[i])

\* C8 as amended (SpecClusterKey): two non-empty sets of urls that hold no
\* newline character have the same canonical string, and so the same id,
\* exactly when they are the same set.
C8_PlainSetsDifferentCanonical ==
    cluster_ids # NotComputed /\ Plain(urls) /\ Plain(other_urls) =>
        /\ (ToSet(urls) = ToSet(other_urls)) = (canonical[1] = canonical[2])
        /\ ToSet(urls) = ToSet(other_urls) => cluster_ids[1] = cluster_ids[2]

C8_Witness ==
    /\ cluster_ids # NotComputed
    /\ Plain(urls)
    /\ Plain(other_urls)
    /\ Len(urls) = 2
    /\ Len(other_urls) = 1
    /\ canonical[1] # canonical[2]


(***************************************************************************)
(* Claims about Architect.run, checked under SpecArchitect.                *)
(***************************************************************************)
\* the entries of a cluster's member list whose url is a url of some entry
\* of the dedup window
KnownMembers(cluster) ==
    {i \in 1..Len(cluster.candidates) :
        \E h \in 1..Len(history_window) :
            \E u \in 1..Len(history_window[h].urls) :
                history_window[h].urls[u] = cluster.candidates[i].url}

\* C9: a cluster of N member entries, `overlap` of them with a url of the
\* dedup window, is flagged duplicate exactly when 2 * overlap > N.
C9_DuplicateIffStrictMajority ==
    \A k \in 1..Len(formed) :
        formed[k].is_duplicate_of_history
            = (2 * Cardinality(KnownMembers(formed[k])) > Len(formed[k].candidates))

\* one of two known is not a duplicate
C9_Witness ==
    \E k \in 1..Len(formed) :
        /\ Len(formed[k].candidates) = 2
        /\ Cardinality(KnownMembers(formed[k])) = 1
        /\ ~formed[k].is_duplicate_of_history
        /\ arch_pc = "returned"

IsDuplicate(cluster) == cluster.is_duplicate_of_history

\* C10: the clusters returned are exactly the clusters formed and not
\* flagged duplicate, each with a member; deduped_count is the number of
\* clusters formed and flagged; and the two add up to the number of oracle
\* groups that have a valid member index.
C10_OutputAccounting ==
    arch_pc = "returned" =>
        /\ clusters = SelectSeq(formed, LAMBDA c : ~IsDuplicate(c))
        /\ \A k \in 1..Len(clusters) :
               ~IsDuplicate(clusters[k]) /\ clusters[k].candidates # <<>>
        /\ deduped_count = Len(SelectSeq(formed, IsDuplicate))
        /\ Len(clusters) + deduped_count = valid_groups


(***************************************************************************)
(* Claims about one group of the oracle's answer, checked under SpecGroup. *)
(***************************************************************************)
IsValidIndex(idx) == idx >= 0 /\ idx < Len(candidates)

\* C11: the representative url of a cluster is the url of the candidate at
\* the group's best index when that is a valid index of the candidate list
\* (0 <= best < number of candidates), and otherwise the url of the candidate
\* at the group's first member index.
C11_RepresentativeUrl ==
    last_rc # NoGroup /\ formed # <<>> =>
        formed[1].best_url =
            IF IsValidIndex(last_rc.best_index)
            THEN candidates[last_rc.best_index + 1].url
            ELSE IF IsValidIndex(last_rc.candidate_indices[1])
            THEN candidates[last_rc.candidate_indices[1] + 1].url
            ELSE formed[1].candidates[1].url

(***************************************************************************)
(* Claims about the degraded Architect, checked under SpecArchitect.       *)
(***************************************************************************)
\* C12: when the grouping call raises, run returns one singleton cluster per
\* candidate, in candidate order, labelled with the candidate's title and
\* with the candidate's url as representative; the clusters go through the
\* duplicate detection like any other.
C12_FallbackSingletons ==
    grouping_failed =>
        /\ arch_pc # "raised"
        /\ arch_pc = "returned" =>
            /\ Len(formed) = Len(candidates)
            /\ \A k \in 1..Len(formed) :
                /\ formed[k].candidates = <<candidates[k]>>
                /\ formed[k].label = candidates[k].title
                /\ formed[k].best_url = candidates[k].url
                /\ formed[k].is_duplicate_of_history
                       = (Cardinality(KnownMembers(formed[k])) = 1)
            /\ clusters = SelectSeq(formed, LAMBDA c : ~IsDuplicate(c))
            /\ deduped_count = Len(formed) - Len(clusters)

C12_Witness ==
    /\ grouping_failed
    /\ arch_pc = "returned"
    /\ Len(candidates) = 2
    /\ candidates[1].url # candidates[2].url
    /\ deduped_count = 1
    /\ Len(clusters) = 1

\* C13: whatever the oracle answers, run returns and never raises.
C13_NeverRaises == arch_pc # "raised"


(***************************************************************************)
(* Claims about apply_retention and get_dedup_window, checked under        *)
(* SpecRetention.                                                          *)
(***************************************************************************)
\* the entry carries a last-seen date, and it is n days or more before today
SeenDaysAgo(e, today, n) == e.last_seen.kind = "iso" /\ today - e.last_seen.day >= n

C14_Step ==
    hist_op' = "retention" =>
        /\ entries' = SelectSeq(entries,
               LAMBDA e : ~SeenDaysAgo(e, arg_today', RetentionDays + 1))
        /\ removed_count' = Len(entries) - Len(entries')

\* C14: apply_retention(today) removes exactly the entries last seen more
\* than RetentionDays days before today (one seen exactly RetentionDays days
\* before is kept), keeps the others as they are and in order, and returns
\* the number removed.
C14_RetentionExact == [][C14_Step]_vars

C14_Witness ==
    /\ hist_op = "retention"
    /\ removed_count = 1
    /\ Len(entries) = 1
    /\ entries[1].last_seen = IsoFormat(arg_today - RetentionDays)

Undated(e) == e.last_seen.kind # "iso"

C15_Step ==
    /\ hist_op' = "retention" =>
           \A i \in 1..Len(entries) : Undated(entries[i]) =>
               \E j \in 1..Len(entries') : entries'[j] = entries[i]
    /\ hist_op' = "window" =>
           \A i \in 1..Len(entries) : Undated(entries[i]) =>
               \E j \in 1..Len(dedup_window') : dedup_window'[j] = entries[i]

\* C15: an entry whose last-seen is missing or no date is never removed by
\* apply_retention, whatever today is and however often it is called, and is
\* in every result of get_dedup_window.
C15_UndatedKept == [][C15_Step]_vars

C15_Witness ==
    /\ hist_op = "retention"
    /\ removed_count = 1
    /\ arg_today = MaxDay
    /\ Len(entries) = 1
    /\ entries[1].last_seen = Blank

C16_Step ==
    hist_op' = "window" =>
        /\ dedup_window' = SelectSeq(entries,
               LAMBDA e : ~SeenDaysAgo(e, arg_today', DedupWindowDays + 1))
        /\ entries' = entries

\* C16: get_dedup_window(today) returns exactly the entries last seen on or
\* after today - DedupWindowDays, in stored order, and leaves the store as
\* it is.
C16_WindowExact == [][C16_Step]_vars

C16_Witness ==
    /\ hist_op = "window"
    /\ Len(entries) = 2
    /\ Len(dedup_window) = 1
    /\ dedup_window[1] = entries[2]
    /\ entries[2].last_seen = IsoFormat(arg_today - DedupWindowDays)
    /\ entries[1].last_seen = IsoFormat(arg_today - DedupWindowDays - 1)


(***************************************************************************)
(* Claims about add_entries, checked under SpecHistory.                    *)
(***************************************************************************)
\* the positions of the entries with the id of the entry just taken
Resighted(list, entry) ==
    {i \in 1..Len(list) : list[i].cluster_id = entry.cluster_id}

C17_UniqueIds ==
    \A i, j \in 1..Len(entries) :
        entries[i].cluster_id = entries[j].cluster_id => i = j

C17_Step ==
    hist_op' = "add" /\ Resighted(entries, arg_entry') # {} =>
        /\ Len(entries') = Len(entries)
        /\ \A i \in Resighted(entries, arg_entry') :
               ToSet(entries'[i].urls)
                   = ToSet(entries[i].urls) \cup ToSet(arg_entry'.urls)

\* C17: from an empty store, whatever add_entries and apply_retention calls
\* follow, no two entries have the same cluster id; adding an entry whose id
\* is in the store adds no entry and makes the urls of the entry of that id
\* the union of its urls and the new ones.
C17_MergeKeepsIdsUnique == []C17_UniqueIds /\ [][C17_Step]_vars

C17_Witness ==
    /\ hist_op = "add"
    /\ hist_pending = 0
    /\ Len(entries) = 1
    /\ Len(entries[1].urls) = 2
    /\ entries[1].urls[1] # entries[1].urls[2]

C18_Step ==
    hist_op' = "add" =>
        \A i \in Resighted(entries, arg_entry') :
            entries[i].last_seen.kind = "iso" /\ arg_entry'.last_seen.kind = "iso" =>
                entries'[i].last_seen
                    = IsoFormat(Max(entries[i].last_seen.day, arg_entry'.last_seen.day))

\* C18: when add_entries merges an entry into the entry of its id, the
\* last-seen of that entry becomes the later of its old date and the new
\* entry's date.
C18_LastSeenLater == [][C18_Step]_vars

C19_Step ==
    hist_op' \in {"begin", "add", "window"} =>
        /\ Len(entries') >= Len(entries)
        /\ hist_op' # "add" => entries' = entries
        /\ \A i \in 1..Len(entries) :
               /\ entries'[i].cluster_id = entries[i].cluster_id
               /\ entries'[i].label = entries[i].label
               /\ entries'[i].first_seen = entries[i].first_seen
               /\ ToSet(entries[i].urls) \subseteq ToSet(entries'[i].urls)
               /\ entries[i].cluster_id # arg_entry'.cluster_id =>
                      entries'[i] = entries[i]

\* C19: add_entries and get_dedup_window remove no entry and no url of an
\* entry; add_entries leaves every entry of another id as it is, and the
\* first-seen and label of the entry it merges into.
C19_OnlyRetentionRemoves == [][C19_Step]_vars

C19_Witness ==
    /\ hist_op = "add"
    /\ Len(entries) = 2
    /\ arg_entry.cluster_id = entries[1].cluster_id
    /\ Len(entries[1].urls) = 2
    /\ entries[1].first_seen # arg_entry.first_seen


(***************************************************************************)
(* Claims about the history across runs, checked under SpecPipeline.       *)
(***************************************************************************)
ClusterUrls(cluster) ==
    {cluster.candidates[i].url : i \in 1..Len(cluster.candidates)}

\* C20: when a run has formed a cluster whose id was a key of the history,
\* the run leaves the entry of that id with the cluster's urls added to its
\* urls and with the run date as last-seen.
C20_ResightingUpdatesHistory ==
    run_pc = "idle" /\ arch_pc = "returned" =>
        \A k \in 1..Len(formed) : \A i \in 1..Len(history_before) :
            history_before[i].cluster_id = formed[k].cluster_id =>
                \E j \in 1..Len(history_file) :
                    /\ history_file[j].cluster_id = formed[k].cluster_id
                    /\ history_file[j].last_seen = IsoFormat(run_date)
                    /\ ToSet(history_file[j].urls)
                           = ToSet(history_before[i].urls) \cup ClusterUrls(formed[k])


(***************************************************************************)
(* Claims about one run of run_pipeline, checked under SpecRun.            *)
(***************************************************************************)
\* the entries of the archive index, none when the file is absent
IndexDigests(dir) ==
    IF dir[FileArchive] = NoFile THEN <<>> ELSE dir[FileArchive].digests

\* the ids of the clusters the Architect has returned
SurvivingIds == {clusters[k].cluster_id : k \in 1..Len(clusters)}

\* the run is past save()
PastSave == run_pc \in {"saved", "latest", "dated", "done"}

\* C21: the entries passed to add_entries are one per surviving cluster, in
\* order, with the cluster's id, label and member urls and the run date as
\* first-seen and last-seen; the surviving clusters are the formed ones that
\* are not duplicates; and once the history is saved, every entry the store
\* had before whose id is not a surviving cluster's id is there unchanged,
\* the only new entries being those of surviving clusters.
C21_EntriesOfSurvivors ==
    /\ run_pc = "adding" /\ hist_op = "begin" =>
          /\ Len(new_entries) = Len(clusters)
          /\ Len(formed) = Len(clusters) + deduped_count
          /\ \A k \in 1..Len(clusters) :
                 /\ new_entries[k].cluster_id = clusters[k].cluster_id
                 /\ new_entries[k].label = clusters[k].label
                 /\ Len(new_entries[k].urls) = Len(clusters[k].candidates)
                 /\ \A i \in 1..Len(clusters[k].candidates) :
                        new_entries[k].urls[i] = clusters[k].candidates[i].url
                 /\ new_entries[k].first_seen = IsoFormat(run_date)
                 /\ new_entries[k].last_seen = IsoFormat(run_date)
                 /\ ~ clusters[k].is_duplicate_of_history
    /\ PastSave =>
          /\ Len(history_file) >= Len(history_before)
          /\ \A i \in 1..Len(history_before) :
                 history_before[i].cluster_id \notin SurvivingIds =>
                     history_file[i] = history_before[i]
          /\ \A j \in (Len(history_before) + 1)..Len(history_file) :
                 history_file[j].cluster_id \in SurvivingIds

\* a run that found one cluster a duplicate of the history and kept
\* another, and has saved the history: the old entry is as it was
C21_Witness ==
    /\ run_pc = "done"
    /\ history_before # <<>>
    /\ deduped_count = 1
    /\ Len(clusters) = 1
    /\ Len(history_file) = 2
    /\ history_file[1] = history_before[1]

\* C22: in a run no write of the history file comes before a write of a
\* digest artifact (latest, dated, archive index).
C22_ArtifactsBeforeHistory ==
    \A i \in 1..Len(writes) : \A j \in 1..Len(writes) :
        writes[i] = FileHistory /\ writes[j] # FileHistory => j < i


\* C25: after a completed run the latest artifact and the dated artifact of
\* the run date both hold the digest of the run, and no step of the run
\* writes the dated artifact of another date.
C25_Step ==
    \A d \in Days :
        d # run_date' => files'[FileDated(d)] = files[FileDated(d)]

C25_LatestAndDated ==
    /\ [](run_pc = "done" =>
             /\ outputs.digest # NoFile
             /\ files[FileLatest] = outputs.digest
             /\ files[FileDated(run_date)] = outputs.digest)
    /\ [][C25_Step]_vars

\* a run with a story, into a directory that held the digest of the day
\* before as latest: latest is replaced, the older dated file is as it was
C25_Witness ==
    /\ run_pc = "done"
    /\ run_date = MaxDay
    /\ outputs.stories # <<>>
    /\ files[FileDated(MaxDay - 1)] = OldDigest(MaxDay - 1)
    /\ files[FileLatest] = files[FileDated(MaxDay)]
    /\ files[FileLatest] # OldDigest(MaxDay - 1)

\* C26: a Sentinel, Architect, Analyst or Editor that is given no items
\* returns an empty result with api_calls 0 and leaves the gateway's
\* call_count as it was; the next stage is then entered, and after a Scout
\* without candidates every later stage has returned empty.
C26_Step ==
    /\ run_pc = "sentinel" /\ run_pc' = "window"
          /\ outputs.scout.candidates = <<>> =>
              /\ outputs'.sentinel = NoSentinel
              /\ call_count' = call_count
    /\ run_pc' = "architect" /\ arch_pc # "returned" /\ candidates' = <<>> =>
          /\ call_count' = call_count
          /\ arch_pc' = "returned" =>
                 clusters' = <<>> /\ deduped_count' = 0 /\ api_calls' = 0
    /\ run_pc = "architect" /\ run_pc' = "editor" /\ clusters = <<>> =>
          /\ outputs'.analyst = NoAnalyst
          /\ call_count' = call_count
    /\ run_pc = "editor" /\ outputs.analyst.analyses = <<>> /\ run_pc' # run_pc =>
          /\ run_pc' = "digest"
          /\ outputs'.stories = <<>>
          /\ call_count' = call_count

C26_EmptyInputShortCircuits ==
    /\ [][C26_Step]_vars
    /\ [](run_pc \in {"digest", "adding", "saved", "latest", "dated", "done"}
             /\ outputs.scout.candidates = <<>> =>
                 /\ outputs.sentinel = NoSentinel
                 /\ clusters = <<>> /\ deduped_count = 0 /\ api_calls = 0
                 /\ outputs.analyst = NoAnalyst
                 /\ outputs.stories = <<>>
                 /\ call_count[self] <= outputs.scout.api_calls)

\* the Scout has made its calls and found nothing: the four stages have
\* returned empty without a call of their own and the run is at its end
C26_Witness ==
    /\ run_pc = "done"
    /\ outputs.scout.candidates = <<>>
    /\ outputs.scout.api_calls = 2
    /\ call_count[self] = 2
    /\ outputs.analyst = NoAnalyst
    /\ outputs.stories = <<>>

\* C27: a run whose Scout found no candidate and that has come to its end
\* has written latest and the dated file with no stories and the metadata
\* of the run, has today's index entry with story_count 0, and has saved
\* the history with last_updated equal to the run date.
C27_EmptyRunPublishes ==
    run_pc = "done" /\ outputs.scout.candidates = <<>> =>
        /\ files[FileLatest].kind = "digest"
        /\ files[FileLatest].stories = <<>>
        /\ files[FileLatest].metadata.run_date = IsoFormat(run_date)
        /\ files[FileLatest].metadata.total_discovered = 0
        /\ files[FileDated(run_date)] = files[FileLatest]
        /\ \E j \in 1..Len(IndexDigests(files)) :
               IndexDigests(files)[j] = ArchiveEntry(run_date, 0)
        /\ writes[1] = FileHistory
        /\ last_updated = IsoFormat(run_date)

\* the api calls the stages have reported (the Editor reports none)
ReportedCalls ==
    outputs.scout.api_calls + outputs.sentinel.api_calls + api_calls
        + outputs.analyst.api_calls

\* C28: once the digest of a run is built, its metadata has the numbers of
\* the Scout's candidates, of the Sentinel's passed candidates, of the
\* surviving plus the duplicate clusters, of the surviving clusters and of
\* the digest's stories, and as total_api_calls the gateway's call_count,
\* which no later step of the run changes.
C28_Metadata ==
    run_pc \in {"adding", "saved", "latest", "dated", "done"} =>
        LET m == outputs.digest.metadata
        IN /\ m.total_discovered = Len(outputs.scout.candidates)
           /\ m.after_sentinel = Len(outputs.sentinel.passed)
           /\ m.clusters_formed = Len(formed)
           /\ m.clusters_formed = Len(clusters) + deduped_count
           /\ m.after_dedup = Len(clusters)
           /\ m.stories_published = Len(outputs.digest.stories)
           /\ outputs.digest.stories = outputs.stories
           /\ m.total_api_calls = call_count[self]

\* a finished run with a duplicate cluster and a surviving one, whose
\* stages reported another number of calls than the gateway has counted
C28_Witness ==
    /\ run_pc = "done"
    /\ deduped_count = 1
    /\ Len(clusters) = 1
    /\ outputs.digest.metadata.clusters_formed = 2
    /\ outputs.digest.metadata.total_api_calls # ReportedCalls
    /\ files[FileLatest] = outputs.digest

\* C29: when load() or save() has failed, run_pipeline has raised and does
\* nothing more; after a failed load no stage has run, no generate call was
\* made and neither the history file nor an artifact was written; after a
\* failed save the history file and the artifacts are as the run found them.
C29_Step ==
    /\ run_pc = "raised" => run_pc' = "raised" /\ files' = files
                                /\ history_file' = history_file
    /\ raised_in' \cap {"load", "save"} # {} /\ raised_in \cap {"load", "save"} = {} =>
          /\ run_pc' = "raised"
          /\ files' = files
          /\ history_file' = history_file
          /\ last_updated' = last_updated

C29_LedgerFailuresRaise ==
    /\ [][C29_Step]_vars
    /\ [](raised_in \cap {"load", "save"} # {} => run_pc = "raised" /\ writes = <<>>)
    /\ []("load" \in raised_in =>
             /\ raised_in = {"load"}
             /\ outputs = NoOutputs
             /\ call_count[self] = 0
             /\ arch_pc = "off")

\* the load of a history file that was there has failed: the run has raised
\* and the files of the earlier run are as they were
C29_Witness ==
    /\ "load" \in raised_in
    /\ run_pc = "raised"
    /\ history_file # <<>>
    /\ files = DirAfter(MaxDay - 1)

\* the candidates of `cands` outside `muted`, each with relevance 1.0
PassedThrough(cands, muted) ==
    LET kept == SelectSeq(cands, LAMBDA c : c.title \notin muted)
    IN [i \in 1..Len(kept) |->
           [title |-> kept[i].title, url |-> kept[i].url, relevance_score |-> 10]]

\* C30: run_pipeline raises only after a failure of load(), of save(), of
\* an index of the Architect or of the validation of an analysis, never
\* after failed generate calls alone; a failed Scout query and the queries
\* after it add no candidate; a failed
\* Sentinel call passes every candidate the rules have left, with relevance
\* 1.0; a failed Architect call gives one cluster per candidate; a run at
\* its end has saved the history and written the three artifacts.
C30_Step ==
    /\ run_pc = "scout" /\ run_pc' = "scout" /\ ~outputs'.scout.use_grounding =>
          /\ outputs'.scout.candidates = outputs.scout.candidates
          /\ call_count' = call_count
    /\ "sentinel" \in raised_in' \ raised_in =>
          /\ run_pc' = "window"
          /\ outputs'.sentinel.passed # <<>>
          /\ \E muted \in MutedSets :
                 /\ outputs'.sentinel.passed
                        = PassedThrough(outputs.scout.candidates, muted)
                 /\ outputs'.sentinel.filtered_count
                        = Len(outputs.scout.candidates) - Len(outputs'.sentinel.passed)

C34_Step ==
    run_pc = "scout" /\ "scout" \in raised_in =>
        /\ call_count' = call_count
        /\ outputs'.scout.api_calls = outputs.scout.api_calls
        /\ outputs'.scout.candidates = outputs.scout.candidates
        /\ raised_in' = raised_in
        /\ \/ run_pc' = "scout" /\ outputs'.scout.queries = outputs.scout.queries - 1
           \/ run_pc' = "sentinel" /\ outputs.scout.queries = 0
           \/ run_pc' = "scout" /\ UNCHANGED outputs

C34_NoCallAfterFailure ==
    /\ [][C34_Step]_vars
    /\ [](run_pc = "scout" => (("scout" \in raised_in) <=> ~outputs.scout.use_grounding))

\* the Scout has returned: its first query gave a candidate, the second
\* failed; one call is counted, two are reported, the candidate is kept
C34_Witness ==
    /\ run_pc = "sentinel"
    /\ "scout" \in raised_in
    /\ outputs.scout.candidates # <<>>
    /\ outputs.scout.api_calls = 2
    /\ call_count[self] = 1

\* C36: every story of a run's digest has the id of a surviving cluster of
\* the run, no two stories have the same id, and in the metadata
\* stories_published <= after_dedup <= clusters_formed.
C36_StoriesOfSurvivors ==
    run_pc \in {"adding", "saved", "latest", "dated", "done"} =>
        LET story_list == outputs.digest.stories
            m == outputs.digest.metadata
        IN /\ \A k \in 1..Len(story_list) : story_list[k].cluster_id \in SurvivingIds
           /\ \A k \in 1..Len(story_list) : \A j \in 1..Len(story_list) :
                  story_list[k].cluster_id = story_list[j].cluster_id => k = j
           /\ m.stories_published <= m.after_dedup
           /\ m.after_dedup <= m.clusters_formed

\* C37: every entry of the saved history that the run has created or
\* changed has the id of a story of the run's digest.
C37_HistoryOfPublished ==
    PastSave =>
        \A j \in 1..Len(history_file) :
            (j > Len(history_before) \/ history_file[j] # history_before[j]) =>
                \E k \in 1..Len(outputs.digest.stories) :
                    outputs.digest.stories[k].cluster_id = history_file[j].cluster_id

(***************************************************************************)
(* Claims about the archive index across runs, checked under SpecArchive.  *)
(***************************************************************************)
\* C23: from an absent index, after any runs the index has at most one
\* entry per date and its entries are in descending order of date.
C23_IndexSortedDistinct ==
    LET digests == IndexDigests(files)
    IN \A i \in 1..Len(digests) : \A j \in 1..Len(digests) :
           i < j => digests[i].date.day > digests[j].date.day

\* the second run was of an earlier date than the first: its entry, put at
\* the front, stands behind after the sort
C23_Witness ==
    /\ run_pc = "done"
    /\ runs = 2
    /\ Len(IndexDigests(files)) = 2
    /\ IndexDigests(files)[2].date = IsoFormat(run_date)

\* C24: a run that publishes a date the index already has leaves one entry
\* of that date, with the run's dated file and story count, and the entries
\* of the other dates as they were.
C24_Step ==
    LET old == IndexDigests(files)
        new == IndexDigests(files')
        today == IsoFormat(run_date)
    IN RunWriteArchive /\ (\E i \in 1..Len(old) : old[i].date = today) =>
           /\ Cardinality({j \in 1..Len(new) : new[j].date = today}) = 1
           /\ \A j \in 1..Len(new) :
                  new[j].date = today =>
                      /\ new[j].file = FileDated(run_date)
                      /\ new[j].story_count = Len(outputs.stories)
           /\ SelectSeq(new, LAMBDA e : e.date # today)
                  = SelectSeq(old, LAMBDA e : e.date # today)

C40_IndexMatchesDatedFiles ==
    run_pc \in {"idle", "done"} =>
        \A j \in 1..Len(IndexDigests(files)) :
            LET e == IndexDigests(files)[j]
            IN /\ e.file \in FileNames
               /\ files[e.file] # NoFile
               /\ files[e.file].kind = "digest"
               /\ files[e.file].date = e.date
               /\ Len(files[e.file].stories) = e.story_count

\* two completed runs of different dates and different numbers of stories
C40_Witness ==
    /\ run_pc = "done"
    /\ Len(IndexDigests(files)) = 2
    /\ IndexDigests(files)[1].story_count = 2
    /\ IndexDigests(files)[2].story_count = 1
    /\ Len(files[IndexDigests(files)[2].file].stories) = 1


(***************************************************************************)
(* Further claims about the Architect, checked under SpecArchitect.        *)
(***************************************************************************)
\* C35: the representative url of every cluster the Architect forms is the
\* url of one of the cluster's own member candidates.
C35_BestUrlOfMember ==
    \A k \in 1..Len(formed) : formed[k].best_url \in ClusterUrls(formed[k])


--------------------------------------------------------------------------
\* Claims about the stages run by themselves

\* the positions of the rule-surviving candidates whose score is present and
\* at least the threshold
ScoredIn(surviving, scores) ==
    {i \in 1..Len(surviving) :
        i <= Len(scores) /\ scores[i] >= sentinel_relevance_threshold}

\* the k-th smallest of a set of positions
KthOf(positions, k) ==
    CHOOSE i \in positions : Cardinality({j \in positions : j < i}) = k - 1

\* C31: when the scoring call succeeds, the i-th candidate that survived the
\* rules is passed exactly when a score is present at position i and is at
\* least the relevance threshold (a missing score counts as 0, scores beyond
\* the candidates are ignored); the passed candidates are in input order, and
\* the passed and the filtered together are as many as the discovered
\* candidates.
C31_PassedByScore ==
    (run_pc = "window" /\ outputs.sentinel.api_calls = 1
        /\ "sentinel" \notin raised_in) =>
        LET cands == outputs.scout.candidates
            surviving == SelectSeq(cands,
                             LAMBDA c : c.title \notin outputs.given.muted)
            scores == outputs.given.scores
            positions == ScoredIn(surviving, scores)
            passed == outputs.sentinel.passed
        IN /\ Len(passed) = Cardinality(positions)
           /\ \A k \in 1..Len(passed) :
                 /\ passed[k].title = surviving[KthOf(positions, k)].title
                 /\ passed[k].url = surviving[KthOf(positions, k)].url
                 /\ passed[k].relevance_score = scores[KthOf(positions, k)]
           /\ Len(passed) + outputs.sentinel.filtered_count = Len(cands)

\* a scored run in which the rules held one candidate back, one candidate
\* had a score below the threshold or none, and one was passed although more
\* scores than candidates came back
C31_Witness ==
    /\ run_pc = "window"
    /\ outputs.sentinel.api_calls = 1
    /\ "sentinel" \notin raised_in
    /\ Len(outputs.scout.candidates) = 2
    /\ Cardinality(outputs.given.muted) = 1
    /\ Len(outputs.given.scores) = 3
    /\ Len(outputs.sentinel.passed) = 1
    /\ outputs.sentinel.filtered_count = 1

\* how often a draft is among the published drafts, and a story among the
\* stories
TimesIn(list, x) == Cardinality({k \in 1..Len(list) : list[k] = x})

\* C32: the Editor publishes a draft exactly when its snr is at least the snr
\* threshold and its breaking or its importance is at least its threshold,
\* and returns the stories by breaking, then importance, both descending.
C32_PublishedAndOrdered ==
    (run_pc = "digest" /\ outputs.analyst.analyses # <<>>
        /\ "editor" \notin raised_in) =>
        LET drafts == outputs.given.drafts
            stories == outputs.stories
            published == SelectSeq(drafts, LAMBDA d :
                /\ d.metrics.snr >= editor_snr_threshold
                /\ \/ d.metrics.breaking >= editor_breaking_threshold
                   \/ d.metrics.importance >= editor_importance_threshold)
            told == [k \in 1..Len(stories) |->
                        [cluster_id |-> stories[k].cluster_id,
                         metrics |-> stories[k].metrics]]
        IN /\ Len(stories) = Len(published)
           /\ \A d \in StageDrafts : TimesIn(told, d) = TimesIn(published, d)
           /\ \A k \in 1..(Len(stories) - 1) :
                 \/ stories[k].metrics.breaking > stories[k + 1].metrics.breaking
                 \/ /\ stories[k].metrics.breaking
                          = stories[k + 1].metrics.breaking
                    /\ stories[k].metrics.importance
                          >= stories[k + 1].metrics.importance

\* two drafts are published in the other order than they were drafted in, one
\* of them on its importance alone
C32_Witness ==
    /\ run_pc = "digest"
    /\ outputs.analyst.analyses # <<>>
    /\ "editor" \notin raised_in
    /\ Len(outputs.given.drafts) = 2
    /\ Len(outputs.stories) = 2
    /\ outputs.given.drafts[1].metrics.breaking = 7
    /\ outputs.given.drafts[2].metrics.breaking = 8
    /\ outputs.stories[1].metrics = outputs.given.drafts[2].metrics
    /\ outputs.stories[2].metrics = outputs.given.drafts[1].metrics


\* the generate calls a step of a stage makes: those that return and, for the
\* stage named, the one that raises
Invoked(stage) ==
    (call_count'[self] - call_count[self])
        + (IF stage \in raised_in' /\ stage \notin raised_in THEN 1 ELSE 0)

\* 1 for a non-empty input, 0 for an empty one
OnceIfAny(input) == IF input # <<>> THEN 1 ELSE 0

C33_Step ==
    /\ run_pc = "sentinel" /\ run_pc' # run_pc =>
          Invoked("sentinel") = OnceIfAny(outputs.scout.candidates)
    /\ run_pc = "architect" /\ arch_pc = "returned" /\ run_pc' # run_pc =>
          /\ run_pc' = "editor"
          /\ Invoked("analyst") = OnceIfAny(clusters)
          /\ Len(outputs'.analyst.analyses) = Len(clusters)
          /\ \A k \in 1..Len(clusters) :
                outputs'.analyst.analyses[k].cluster_id = clusters[k].cluster_id
    /\ run_pc = "editor" /\ run_pc' # run_pc =>
          Invoked("editor") = OnceIfAny(outputs.analyst.analyses)

\* C33: the filter, cluster, enrich and score stages each invoke generate at
\* most once, and exactly once when their input is not empty; the enrich
\* stage returns exactly one analysis per input cluster, in the order of the
\* clusters, also when its call fails or its answer leaves a cluster out.
C33_OneCallPerStage ==
    /\ [][C33_Step]_vars
    /\ [](arch_pc = "returned" => api_calls = OnceIfAny(candidates))


--------------------------------------------------------------------------
\* Claims about a run and its repetition

\* C38: a second run on the same date, given the same candidates and the
\* same answers of the oracle, publishes what the first run has published:
\* its digest stories, the stories of the dated artifact and the story count
\* of the date in the archive index are the first run's.
C38_RerunPublishesTheSame ==
    (run_pc = "done" /\ outputs.replayed.again
        /\ outputs.digest.date = outputs.replayed.first.dated.date) =>
        LET first == outputs.replayed.first
        IN /\ outputs.digest.stories = first.stories
           /\ files[FileDated(run_date)].stories = first.dated.stories
           /\ IndexCount(files, run_date) = first.story_count

\* more than half of the urls of a cluster are urls of a history entry
MostlyIn(cluster, entry) ==
    LET members == cluster.candidates
        shared == {k \in 1..Len(members) :
                      \E j \in 1..Len(entry.urls) : entry.urls[j] = members[k].url}
    IN 2 * Cardinality(shared) > Len(members)

\* C39: when a run on day d has recorded a surviving cluster, a later run on
\* a day from d to d + DedupWindowDays (with DedupWindowDays <= RetentionDays)
\* flags as duplicate every cluster more than half of whose member urls are
\* urls of the recorded cluster.
C39_RecordedIsFlagged ==
    (outputs.replayed.again /\ run_pc = "architect" /\ arch_pc = "returned"
        /\ DedupWindowDays <= RetentionDays) =>
        LET first == outputs.replayed.first
            d == first.dated.date.day
        IN (d <= run_date /\ run_date <= d + DedupWindowDays) =>
               \A k \in 1..Len(formed) : \A j \in 1..Len(first.recorded) :
                   MostlyIn(formed[k], first.recorded[j]) =>
                       formed[k].is_duplicate_of_history

====
